---- MODULE Spec2Model ----
(***************************************************************************)
(* Verification model of the Workers Connect client.                       *)
(*                                                                         *)
(*  - HomeScreen.handleLogin: the OAuth authorization-code handshake       *)
(*    (browser session, redirect parsing, regex fallback, navigation).     *)
(*  - SearchScreen: the profession / free-text / radius filter effect.     *)
(*                                                                         *)
(* Strings that the code inspects character by character are sequences of  *)
(* tokens: a redirect URL is <<scheme, authority, path, "?", name, "=",    *)
(* value characters, "&", ...>>, a worker name is a sequence of letters.   *)
(***************************************************************************)
EXTENDS Integers, Sequences, FiniteSets, TLC

\* ------------------------------------------------------------------------
\* Bounds of the exploration
\* ------------------------------------------------------------------------
MaxParams == 3

\* ------------------------------------------------------------------------
\* JavaScript values
\* ------------------------------------------------------------------------
\* null / undefined, kept apart from every string (the empty string is <<>>)
Null == <<"<null>">>

\* JavaScript truthiness of a string-or-null value
Truthy(v) == v # Null /\ v # <<>>

MinOf(S) == CHOOSE i \in S : \A j \in S : i <= j

\* ------------------------------------------------------------------------
\* Redirect URLs the browser session can hand back
\* ------------------------------------------------------------------------
Schemes == {"exp://", "exps://", "myapp://", "https://"}
\* "host:port" stands for an authority whose port is not a number, which
\* makes the URL constructor throw
Hosts == {"host", "host:port"}
CallbackPath == "/oauth/callback"
ParamPool ==
  { <<"code", "=", "A">>, <<"code", "=", "%41", "+">>, <<"code", "=">>,
    <<"code", "=", "%zz">>,
    <<"state", "=", "B">>,
    <<"error", "=", "E">>, <<"error", "=">> }
Fragments == { <<>>, <<"#", "frag">> }

RECURSIVE ParamSeqs(_)
ParamSeqs(n) ==
  IF n = 0 THEN { <<>> }
  ELSE LET shorter == ParamSeqs(n - 1)
       IN shorter \cup { Append(q, p) : q \in shorter, p \in ParamPool }

RECURSIVE QueryTokens(_)
QueryTokens(q) ==
  IF q = <<>> THEN <<>>
  ELSE IF Len(q) = 1 THEN <<"?">> \o q[1]
  ELSE QueryTokens(SubSeq(q, 1, Len(q) - 1)) \o <<"&">> \o q[Len(q)]

RedirectUrls ==
  { <<s, h, CallbackPath>> \o QueryTokens(q) \o f :
      s \in Schemes, h \in Hosts, q \in ParamSeqs(MaxParams), f \in Fragments }

\* Results of WebBrowser.openAuthSessionAsync: { type, url }.  Only a
\* success result is typed to carry a url; the other types are also tried
\* with one, since handleLogin tests the fields at run time.
ResultTypes == {"cancel", "dismiss", "success", "locked", "opened"}
SampleUrl == <<"exp://", "host", CallbackPath, "?", "code", "=", "A", "&", "state", "=", "B">>
BrowserResults ==
  { [type |-> "success", url |-> u] : u \in RedirectUrls \cup { <<>>, Null } }
    \cup { [type |-> t, url |-> u] : t \in ResultTypes \ {"success"}, u \in {Null, SampleUrl} }

\* ------------------------------------------------------------------------
\* String helpers over token sequences
\* ------------------------------------------------------------------------
\* index of the first token of s that is in S, 0 when there is none
FirstIndex(s, S) ==
  LET I == { i \in 1..Len(s) : s[i] \in S }
  IN IF I = {} THEN 0 ELSE MinOf(I)

\* String.prototype.split on a one-character separator
RECURSIVE SplitOn(_, _)
SplitOn(s, sep) ==
  LET i == FirstIndex(s, {sep})
  IN IF i = 0 THEN <<s>>
     ELSE <<SubSeq(s, 1, i - 1)>> \o SplitOn(SubSeq(s, i + 1, Len(s)), sep)

\* result.url.startsWith(prefix), prefix being a scheme token
StartsWith(s, prefix) == Len(s) >= 1 /\ s[1] = prefix

\* ------------------------------------------------------------------------
\* The standard URL parser (new URL(...), url.searchParams.get)
\* ------------------------------------------------------------------------
ParseableSchemes == Schemes \cup {"http://"}

\* new URL(str) returns normally: an absolute URL with a well-formed authority
URLParses(s) ==
  /\ Len(s) >= 2
  /\ s[1] \in ParseableSchemes
  /\ s[2] = "host"

\* the query component: after the first "?" and before the first "#"
QueryOf(s) ==
  LET h == FirstIndex(s, {"#"})
      stop == IF h = 0 THEN Len(s) ELSE h - 1
      head == SubSeq(s, 1, stop)
      q == FirstIndex(head, {"?"})
  IN IF q = 0 THEN <<>> ELSE SubSeq(head, q + 1, stop)

\* application/x-www-form-urlencoded decoding of one character: "+" is a
\* space, a valid escape is its character, a malformed escape stays as it is
FormDecodeChar(t) ==
  CASE t = "+" -> " "
    [] t = "%41" -> "A"
    [] OTHER -> t

FormDecode(v) == [i \in 1..Len(v) |-> FormDecodeChar(v[i])]

ParamName(seg) ==
  LET e == FirstIndex(seg, {"="})
  IN FormDecode(IF e = 0 THEN seg ELSE SubSeq(seg, 1, e - 1))

ParamValue(seg) ==
  LET e == FirstIndex(seg, {"="})
  IN FormDecode(IF e = 0 THEN <<>> ELSE SubSeq(seg, e + 1, Len(seg)))

\* url.searchParams.get(name): value of the first pair called name, or null
SearchParamsGet(s, name) ==
  LET segs == SplitOn(QueryOf(s), "&")
      hits == { i \in 1..Len(segs) : segs[i] # <<>> /\ ParamName(segs[i]) = <<name>> }
  IN IF hits = {} THEN Null ELSE ParamValue(segs[MinOf(hits)])

\* ------------------------------------------------------------------------
\* The regex fallback (String.prototype.match, decodeURIComponent)
\* ------------------------------------------------------------------------
\* result.url.match(/[?&]name=([^&]+)/): the capture group of the leftmost
\* match, or null
RegexMatch(s, name) ==
  LET I == { i \in 1..(Len(s) - 3) :
               /\ s[i] \in {"?", "&"}
               /\ s[i + 1] = name
               /\ s[i + 2] = "="
               /\ s[i + 3] # "&" }
  IN IF I = {} THEN Null
     ELSE LET from == MinOf(I) + 3
              rest == SubSeq(s, from, Len(s))
              amp == FirstIndex(rest, {"&"})
          IN IF amp = 0 THEN rest ELSE SubSeq(rest, 1, amp - 1)

\* decodeURIComponent throws URIError on a malformed escape sequence
DecodeThrows(v) == \E i \in 1..Len(v) : v[i] = "%zz"

DecodeChar(t) == IF t = "%41" THEN "A" ELSE t

DecodeURIComponent(v) == [i \in 1..Len(v) |-> DecodeChar(v[i])]

\* ------------------------------------------------------------------------
\* HomeScreen.handleLogin
\* ------------------------------------------------------------------------
VARIABLES
  platform,      \* Platform.OS
  isLoggingIn,   \* the isLoggingIn state of HomeScreen
  pending,       \* handleLogin invocations that have not run to their end
  locationHref,  \* window.location.href
  result,        \* what the browser session of the latest attempt returned
  parserInput,   \* the string handed to new URL(...), Null when none was
  navs,          \* router.push calls of the latest attempt, in order
  errors,        \* console.error calls of the latest attempt, in order
  escaped        \* an exception left handleLogin

loginVars ==
  <<platform, isLoggingIn, pending, locationHref, result,
    parserInput, navs, errors, escaped>>

NoResult == [type |-> "none", url |-> Null]

\* openAuthSessionAsync rejected instead of resolving
Rejected == [type |-> "rejected", url |-> Null]

\* router.push({ pathname: "/oauth/callback", params: { code, state } })
Push(code, state) == [pathname |-> CallbackPath, code |-> code, state |-> state]

\* a rewrite that knows exp:// only
NormalizeSchemeExpOnly(url) ==
  IF StartsWith(url, "exp://")
  THEN [url EXCEPT ![1] = "http://"]
  ELSE url

\* lines 84-89: exp:// and exps:// are rewritten to http://, any other
\* string goes to the URL constructor as it is
NormalizeScheme(url) ==
  IF StartsWith(url, "exp://") \/ StartsWith(url, "exps://")
  THEN [url EXCEPT ![1] = "http://"]
  ELSE url

\* an inner try that navigates as soon as one of code and state is there
TryParseEither(url, pushThrows) ==
  LET input == NormalizeScheme(url)
  IN IF ~URLParses(input)
     THEN [navs |-> <<>>, errors |-> <<>>, parserInput |-> input, thrown |-> TRUE]
     ELSE LET code == SearchParamsGet(input, "code")
              state == SearchParamsGet(input, "state")
              error == SearchParamsGet(input, "error")
          IN IF Truthy(error)
             THEN [navs |-> <<>>, errors |-> <<"OAuth error in callback">>,
                   parserInput |-> input, thrown |-> FALSE]
             ELSE IF Truthy(code) \/ Truthy(state)
             THEN [navs |-> <<Push(code, state)>>, errors |-> <<>>,
                   parserInput |-> input, thrown |-> pushThrows]
             ELSE [navs |-> <<>>, errors |-> <<"Missing code or state in callback URL">>,
                   parserInput |-> input, thrown |-> FALSE]

\* lines 82-114, the body of the inner try.  thrown tells whether the block
\* ended by an exception (the URL constructor's, or router.push's when
\* pushThrows).
TryParse(url, pushThrows) ==
  LET input == NormalizeScheme(url)
  IN IF ~URLParses(input)
     THEN [navs |-> <<>>, errors |-> <<>>, parserInput |-> input, thrown |-> TRUE]
     ELSE LET code == SearchParamsGet(input, "code")
              state == SearchParamsGet(input, "state")
              error == SearchParamsGet(input, "error")
          IN IF Truthy(error)
             THEN [navs |-> <<>>, errors |-> <<"OAuth error in callback">>,
                   parserInput |-> input, thrown |-> FALSE]
             ELSE IF Truthy(code) /\ Truthy(state)
             THEN [navs |-> <<Push(code, state)>>, errors |-> <<>>,
                   parserInput |-> input, thrown |-> pushThrows]
             ELSE [navs |-> <<>>, errors |-> <<"Missing code or state in callback URL">>,
                   parserInput |-> input, thrown |-> FALSE]

\* an inner catch that forwards the captures without decoding them
CatchParseRaw(url, pushThrows) ==
  LET codeMatch == RegexMatch(url, "code")
      stateMatch == RegexMatch(url, "state")
  IN IF codeMatch # Null /\ stateMatch # Null
     THEN [navs |-> <<Push(codeMatch, stateMatch)>>,
           errors |-> <<"Failed to parse callback URL">>,
           thrown |-> pushThrows]
     ELSE [navs |-> <<>>,
           errors |-> <<"Failed to parse callback URL", "Could not extract code/state from URL">>,
           thrown |-> FALSE]

\* lines 115-131, the body of the inner catch
CatchParse(url, pushThrows) ==
  LET codeMatch == RegexMatch(url, "code")
      stateMatch == RegexMatch(url, "state")
  IN IF codeMatch # Null /\ stateMatch # Null
     THEN IF DecodeThrows(codeMatch) \/ DecodeThrows(stateMatch)
          THEN [navs |-> <<>>, errors |-> <<"Failed to parse callback URL">>,
                thrown |-> TRUE]
          ELSE [navs |-> <<Push(DecodeURIComponent(codeMatch), DecodeURIComponent(stateMatch))>>,
                errors |-> <<"Failed to parse callback URL">>,
                thrown |-> pushThrows]
     ELSE [navs |-> <<>>,
           errors |-> <<"Failed to parse callback URL", "Could not extract code/state from URL">>,
           thrown |-> FALSE]

NothingDone == [navs |-> <<>>, errors |-> <<>>, parserInput |-> Null, thrown |-> FALSE]

\* lines 115-131 entered from line 115: what the inner catch adds to an
\* inner try that ended by an exception
Caught(t, c) ==
  IF ~t.thrown THEN t
  ELSE [navs |-> t.navs \o c.navs, errors |-> t.errors \o c.errors,
        parserInput |-> t.parserInput, thrown |-> c.thrown]

\* lines 82-131: the inner try with its catch
ParseRedirect(url, pushThrows1, pushThrows2) ==
  Caught(TryParse(url, pushThrows1), CatchParse(url, pushThrows2))

\* a dispatch that goes by the url alone once the result is not a cancel
DispatchAnyUrl(r, pushThrows1, pushThrows2) ==
  IF r.type = "cancel" THEN NothingDone
  ELSE IF Truthy(r.url)
  THEN ParseRedirect(r.url, pushThrows1, pushThrows2)
  ELSE NothingDone

\* lines 76-132: the dispatch on the session result
Dispatch(r, pushThrows1, pushThrows2) ==
  IF r.type = "cancel" THEN NothingDone
  ELSE IF r.type = "dismiss" THEN NothingDone
  ELSE IF r.type = "success" /\ Truthy(r.url)
  THEN ParseRedirect(r.url, pushThrows1, pushThrows2)
  ELSE NothingDone

\* lines 66-132: the rest of the outer try once the await has settled; a
\* rejection is thrown at the await
AfterAwait(r, pushThrows1, pushThrows2) ==
  IF r = Rejected
  THEN [NothingDone EXCEPT !.thrown = TRUE]
  ELSE Dispatch(r, pushThrows1, pushThrows2)

\* lines 133-135: the outer catch logs whatever was thrown and swallows it
OuterCatch(o) ==
  IF o.thrown
  THEN [o EXCEPT !.errors = Append(@, "Login error"), !.thrown = FALSE]
  ELSE o

\* a login Pressable without its disabled prop
LoginNeverDisabled == FALSE

\* line 187: the login Pressable is disabled while isLoggingIn
LoginDisabled == isLoggingIn

\* a platform test that never recognises the web
IsWebNever == FALSE

\* line 59: Platform.OS === "web"
IsWeb == platform = "web"

\* lines 52-73: a tap on the login button runs handleLogin up to its await.
\* getLoginUrl may throw; on web the page location is assigned and the
\* function returns through its finally.
TapLogin ==
  /\ ~LoginDisabled
  /\ result' = NoResult
  /\ parserInput' = Null
  /\ navs' = <<>>
  /\ escaped' = FALSE
  /\ \E urlThrows \in BOOLEAN :
       IF urlThrows
       THEN /\ errors' = <<"Login error">>
            /\ isLoggingIn' = FALSE
            /\ UNCHANGED <<pending, locationHref>>
       ELSE IF IsWeb
       THEN /\ locationHref' = "loginUrl"
            /\ errors' = <<>>
            /\ isLoggingIn' = FALSE
            /\ UNCHANGED pending
       ELSE /\ pending' = pending + 1
            /\ errors' = <<>>
            /\ isLoggingIn' = TRUE
            /\ UNCHANGED locationHref
  /\ UNCHANGED platform

\* what an attempt leaves behind when it ends with outcome o
Record(o) ==
  /\ parserInput' = o.parserInput
  /\ navs' = o.navs
  /\ errors' = o.errors
  /\ escaped' = o.thrown

\* an end of handleLogin that resets isLoggingIn as the last statement of
\* the try block instead of in a finally
FinishNoFinally(o) ==
  /\ Record(OuterCatch(o))
  /\ isLoggingIn' = o.thrown

\* lines 133-137: the outer catch, then the finally
Finish(o) ==
  /\ Record(OuterCatch(o))
  /\ isLoggingIn' = FALSE

\* lines 66-137: the browser session ends, openAuthSessionAsync resolves
\* and handleLogin runs from the await to its end, through the outer catch
\* and the finally.  pushThrows1 and pushThrows2 tell whether the first and
\* the second router.push call throw.
BrowserSettle ==
  /\ pending > 0
  /\ result' \in BrowserResults
  /\ \E pushThrows1 \in BOOLEAN, pushThrows2 \in BOOLEAN :
       Finish(AfterAwait(result', pushThrows1, pushThrows2))
  /\ pending' = pending - 1
  /\ UNCHANGED <<platform, locationHref>>

\* lines 66, 133-137: openAuthSessionAsync rejects, the outer catch and the
\* finally run
BrowserReject ==
  /\ pending > 0
  /\ result' = Rejected
  /\ Finish(AfterAwait(Rejected, FALSE, FALSE))
  /\ pending' = pending - 1
  /\ UNCHANGED <<platform, locationHref>>

\* lines 36-41: the screen as mounted
LoginInit ==
  /\ platform \in {"web", "ios"}
  /\ isLoggingIn = FALSE
  /\ pending = 0
  /\ locationHref = "app"
  /\ result = NoResult
  /\ parserInput = Null
  /\ navs = <<>>
  /\ errors = <<>>
  /\ escaped = FALSE

\* ------------------------------------------------------------------------
\* location-service: calculateDistance
\* ------------------------------------------------------------------------
\* A latitude or longitude is the IEEE-754 double named by its decimal
\* literal.  Distances are in tenths of a kilometre (the function rounds to
\* one decimal place).
Coord(lat, lon) == [latitude |-> lat, longitude |-> lon]

Riyadh1 == Coord("24.7136", "46.6753")
Riyadh2 == Coord("24.7245", "46.6881")
RiyadhNorth == Coord("25", "46.7")
RiyadhEast == Coord("24.7136", "47.17")
RiyadhOff == Coord("24.8", "47.10915787536078")
Equator0 == Coord("0", "0")
EquatorNear == Coord("0", "0.0899")
Equator1 == Coord("0", "1")
Antipode0 == Coord("0", "180")
North12 == Coord("12", "0")
South12 == Coord("-12", "180")

Coords ==
  { Riyadh1, Riyadh2, RiyadhNorth, RiyadhEast, RiyadhOff,
    Equator0, EquatorNear, Equator1, Antipode0, North12, South12 }

\* the number NaN: Math.sqrt of a negative number, and whatever is computed
\* from it
NaN == -1

\* the JavaScript comparison x <= y of two numbers: false when one is NaN
LessOrEqual(x, y) == x # NaN /\ y # NaN /\ x <= y

\* Math.round(R * c * 10) of the Haversine computation of lines 107-119,
\* evaluated in IEEE-754 double precision for every ordered pair of Coords
HaversineTenths ==
       <<"24.7136", "46.6753", "24.7136", "46.6753">> :> 0
    @@ <<"24.7136", "46.6753", "24.7245", "46.6881">> :> 18
    @@ <<"24.7136", "46.6753", "25", "46.7">> :> 319
    @@ <<"24.7136", "46.6753", "24.7136", "47.17">> :> 500
    @@ <<"24.7136", "46.6753", "24.8", "47.10915787536078">> :> 449
    @@ <<"24.7136", "46.6753", "0", "0">> :> 57202
    @@ <<"24.7136", "46.6753", "0", "0.0899">> :> 57118
    @@ <<"24.7136", "46.6753", "0", "1">> :> 56265
    @@ <<"24.7136", "46.6753", "0", "180">> :> 142949
    @@ <<"24.7136", "46.6753", "12", "0">> :> 50978
    @@ <<"24.7136", "46.6753", "-12", "180">> :> 149173
    @@ <<"24.7245", "46.6881", "24.7136", "46.6753">> :> 18
    @@ <<"24.7245", "46.6881", "24.7245", "46.6881">> :> 0
    @@ <<"24.7245", "46.6881", "25", "46.7">> :> 307
    @@ <<"24.7245", "46.6881", "24.7136", "47.17">> :> 487
    @@ <<"24.7245", "46.6881", "24.8", "47.10915787536078">> :> 433
    @@ <<"24.7245", "46.6881", "0", "0">> :> 57219
    @@ <<"24.7245", "46.6881", "0", "0.0899">> :> 57134
    @@ <<"24.7245", "46.6881", "0", "1">> :> 56281
    @@ <<"24.7245", "46.6881", "0", "180">> :> 142932
    @@ <<"24.7245", "46.6881", "12", "0">> :> 50993
    @@ <<"24.7245", "46.6881", "-12", "180">> :> 149158
    @@ <<"25", "46.7", "24.7136", "46.6753">> :> 319
    @@ <<"25", "46.7", "24.7245", "46.6881">> :> 307
    @@ <<"25", "46.7", "25", "46.7">> :> 0
    @@ <<"25", "46.7", "24.7136", "47.17">> :> 571
    @@ <<"25", "46.7", "24.8", "47.10915787536078">> :> 469
    @@ <<"25", "46.7", "0", "0">> :> 57343
    @@ <<"25", "46.7", "0", "0.0899">> :> 57259
    @@ <<"25", "46.7", "0", "1">> :> 56409
    @@ <<"25", "46.7", "0", "180">> :> 142808
    @@ <<"25", "46.7", "12", "0">> :> 51044
    @@ <<"25", "46.7", "-12", "180">> :> 149107
    @@ <<"24.7136", "47.17", "24.7136", "46.6753">> :> 500
    @@ <<"24.7136", "47.17", "24.7245", "46.6881">> :> 487
    @@ <<"24.7136", "47.17", "25", "46.7">> :> 571
    @@ <<"24.7136", "47.17", "24.7136", "47.17">> :> 0
    @@ <<"24.7136", "47.17", "24.8", "47.10915787536078">> :> 114
    @@ <<"24.7136", "47.17", "0", "0">> :> 57668
    @@ <<"24.7136", "47.17", "0", "0.0899">> :> 57583
    @@ <<"24.7136", "47.17", "0", "1">> :> 56728
    @@ <<"24.7136", "47.17", "0", "180">> :> 142483
    @@ <<"24.7136", "47.17", "12", "0">> :> 51474
    @@ <<"24.7136", "47.17", "-12", "180">> :> 148677
    @@ <<"24.8", "47.10915787536078", "24.7136", "46.6753">> :> 448
    @@ <<"24.8", "47.10915787536078", "24.7245", "46.6881">> :> 433
    @@ <<"24.8", "47.10915787536078", "25", "46.7">> :> 469
    @@ <<"24.8", "47.10915787536078", "24.7136", "47.17">> :> 114
    @@ <<"24.8", "47.10915787536078", "24.8", "47.10915787536078">> :> 0
    @@ <<"24.8", "47.10915787536078", "0", "0">> :> 57645
    @@ <<"24.8", "47.10915787536078", "0", "0.0899">> :> 57561
    @@ <<"24.8", "47.10915787536078", "0", "1">> :> 56707
    @@ <<"24.8", "47.10915787536078", "0", "180">> :> 142506
    @@ <<"24.8", "47.10915787536078", "12", "0">> :> 51425
    @@ <<"24.8", "47.10915787536078", "-12", "180">> :> 148726
    @@ <<"0", "0", "24.7136", "46.6753">> :> 57202
    @@ <<"0", "0", "24.7245", "46.6881">> :> 57219
    @@ <<"0", "0", "25", "46.7">> :> 57343
    @@ <<"0", "0", "24.7136", "47.17">> :> 57668
    @@ <<"0", "0", "24.8", "47.10915787536078">> :> 57645
    @@ <<"0", "0", "0", "0">> :> 0
    @@ <<"0", "0", "0", "0.0899">> :> 100
    @@ <<"0", "0", "0", "1">> :> 1112
    @@ <<"0", "0", "0", "180">> :> 200151
    @@ <<"0", "0", "12", "0">> :> 13343
    @@ <<"0", "0", "-12", "180">> :> 186807
    @@ <<"0", "0.0899", "24.7136", "46.6753">> :> 57118
    @@ <<"0", "0.0899", "24.7245", "46.6881">> :> 57134
    @@ <<"0", "0.0899", "25", "46.7">> :> 57259
    @@ <<"0", "0.0899", "24.7136", "47.17">> :> 57583
    @@ <<"0", "0.0899", "24.8", "47.10915787536078">> :> 57561
    @@ <<"0", "0.0899", "0", "0">> :> 100
    @@ <<"0", "0.0899", "0", "0.0899">> :> 0
    @@ <<"0", "0.0899", "0", "1">> :> 1012
    @@ <<"0", "0.0899", "0", "180">> :> 200051
    @@ <<"0", "0.0899", "12", "0">> :> 13344
    @@ <<"0", "0.0899", "-12", "180">> :> 186807
    @@ <<"0", "1", "24.7136", "46.6753">> :> 56265
    @@ <<"0", "1", "24.7245", "46.6881">> :> 56281
    @@ <<"0", "1", "25", "46.7">> :> 56409
    @@ <<"0", "1", "24.7136", "47.17">> :> 56728
    @@ <<"0", "1", "24.8", "47.10915787536078">> :> 56707
    @@ <<"0", "1", "0", "0">> :> 1112
    @@ <<"0", "1", "0", "0.0899">> :> 1012
    @@ <<"0", "1", "0", "1">> :> 0
    @@ <<"0", "1", "0", "180">> :> 199039
    @@ <<"0", "1", "12", "0">> :> 13389
    @@ <<"0", "1", "-12", "180">> :> 186762
    @@ <<"0", "180", "24.7136", "46.6753">> :> 142949
    @@ <<"0", "180", "24.7245", "46.6881">> :> 142932
    @@ <<"0", "180", "25", "46.7">> :> 142808
    @@ <<"0", "180", "24.7136", "47.17">> :> 142483
    @@ <<"0", "180", "24.8", "47.10915787536078">> :> 142506
    @@ <<"0", "180", "0", "0">> :> 200151
    @@ <<"0", "180", "0", "0.0899">> :> 200051
    @@ <<"0", "180", "0", "1">> :> 199039
    @@ <<"0", "180", "0", "180">> :> 0
    @@ <<"0", "180", "12", "0">> :> 186807
    @@ <<"0", "180", "-12", "180">> :> 13343
    @@ <<"12", "0", "24.7136", "46.6753">> :> 50978
    @@ <<"12", "0", "24.7245", "46.6881">> :> 50993
    @@ <<"12", "0", "25", "46.7">> :> 51044
    @@ <<"12", "0", "24.7136", "47.17">> :> 51474
    @@ <<"12", "0", "24.8", "47.10915787536078">> :> 51425
    @@ <<"12", "0", "0", "0">> :> 13343
    @@ <<"12", "0", "0", "0.0899">> :> 13344
    @@ <<"12", "0", "0", "1">> :> 13389
    @@ <<"12", "0", "0", "180">> :> 186807
    @@ <<"12", "0", "12", "0">> :> 0
    @@ <<"12", "0", "-12", "180">> :> NaN
    @@ <<"-12", "180", "24.7136", "46.6753">> :> 149173
    @@ <<"-12", "180", "24.7245", "46.6881">> :> 149158
    @@ <<"-12", "180", "25", "46.7">> :> 149107
    @@ <<"-12", "180", "24.7136", "47.17">> :> 148677
    @@ <<"-12", "180", "24.8", "47.10915787536078">> :> 148726
    @@ <<"-12", "180", "0", "0">> :> 186807
    @@ <<"-12", "180", "0", "0.0899">> :> 186807
    @@ <<"-12", "180", "0", "1">> :> 186762
    @@ <<"-12", "180", "0", "180">> :> 13343
    @@ <<"-12", "180", "12", "0">> :> NaN
    @@ <<"-12", "180", "-12", "180">> :> 0

\* a distance measured from latitude 0, longitude 0 instead of from coord1
calculateDistanceFromOrigin(coord1, coord2) ==
  HaversineTenths[<<"0", "0", coord2.latitude, coord2.longitude>>]

\* lines 103-120
calculateDistance(coord1, coord2) ==
  HaversineTenths[<<coord1.latitude, coord1.longitude, coord2.latitude, coord2.longitude>>]

\* ------------------------------------------------------------------------
\* SearchScreen
\* ------------------------------------------------------------------------
MaxWorkers == 3

\* professions, names, tags and queries are short strings of letters
Electrician == <<"e", "l">>
Hairdresser == <<"h", "a">>
Plumber == <<"p", "l">>
PROFESSIONS == {Electrician, Hairdresser, Plumber}

WorkerPool ==
  { [id |-> 1, name |-> <<"a", "h">>, profession |-> Electrician, location |-> Riyadh1,
     tags |-> <<Electrician, <<"f", "x">>>>],
    [id |-> 2, name |-> <<"f", "a">>, profession |-> Hairdresser, location |-> Riyadh2,
     tags |-> <<<<"c", "u">>>>],
    [id |-> 3, name |-> <<"s", "a">>, profession |-> Plumber, location |-> RiyadhNorth,
     tags |-> <<>>],
    [id |-> 4, name |-> <<"o", "m">>, profession |-> Electrician, location |-> RiyadhEast,
     tags |-> <<<<"x">>>>] }

RECURSIVE WorkerLists(_)
WorkerLists(n) ==
  IF n = 0 THEN { <<>> }
  ELSE LET shorter == WorkerLists(n - 1)
       IN shorter \cup
          { Append(l, w) : <<l, w>> \in
              { <<m, v>> \in shorter \X WorkerPool : \A i \in 1..Len(m) : m[i].id # v.id } }

Queries == { <<>>, <<"a">>, <<"l">>, <<"x">>, <<"e", "l">> }
DistanceButtons == {10, 25, 50, 100}
UserLocations == { Riyadh1, RiyadhNorth, Equator0 }

VARIABLES
  searchQuery,         \* text of the search box
  selectedProfession,  \* the selected profession tag, Null when none
  maxDistance,         \* radius in km
  workers,             \* the worker list
  filteredWorkers,     \* the list shown
  userLocation,        \* <<>> for null, <<coordinate>> once the location is known
  loading              \* the location is still being loaded

searchVars ==
  <<searchQuery, selectedProfession, maxDistance, workers, filteredWorkers,
    userLocation, loading>>

\* String.prototype.includes
Includes(s, q) ==
  \E i \in 0..(Len(s) - Len(q)) : SubSeq(s, i + 1, i + Len(q)) = q

\* lines 116-118
FilterProfession(list, profession) ==
  IF Truthy(profession)
  THEN SelectSeq(list, LAMBDA w : w.profession = profession)
  ELSE list

\* lines 121-128
FilterQuery(list, query) ==
  IF query # <<>>
  THEN SelectSeq(list, LAMBDA w :
         \/ Includes(w.name, query)
         \/ Includes(w.profession, query)
         \/ \E t \in 1..Len(w.tags) : Includes(w.tags[t], query))
  ELSE list

RECURSIVE KeepAt(_, _)
KeepAt(list, keep) ==
  IF list = <<>> THEN <<>>
  ELSE LET n == Len(list)
           front == KeepAt(SubSeq(list, 1, n - 1), keep)
       IN IF n \in keep THEN Append(front, list[n]) ELSE front

\* a radius filter that looks the location up by position in workers
\* instead of taking it from the element
FilterDistanceByIndex(list, location, radiusKm) ==
  IF location # <<>>
  THEN KeepAt(list, { i \in 1..Len(list) :
         LessOrEqual(calculateDistance(location[1], workers[i].location), radiusKm * 10) })
  ELSE list

\* a radius filter that leaves out a worker exactly at the radius
FilterDistanceStrict(list, location, radiusKm) ==
  IF location # <<>>
  THEN SelectSeq(list, LAMBDA w :
         calculateDistance(location[1], w.location) \in 0..(radiusKm * 10 - 1))
  ELSE list

\* a radius filter that shows nobody while the origin is unknown
FilterDistanceNeedsOrigin(list, location, radiusKm) ==
  IF location # <<>>
  THEN SelectSeq(list, LAMBDA w :
         LessOrEqual(calculateDistance(location[1], w.location), radiusKm * 10))
  ELSE <<>>

\* lines 131-136
FilterDistance(list, location, radiusKm) ==
  IF location # <<>>
  THEN SelectSeq(list, LAMBDA w :
         LessOrEqual(calculateDistance(location[1], w.location), radiusKm * 10))
  ELSE list

\* lines 112-139: the filter effect, run whenever one of its inputs changes
FilterEffect(list, profession, query, location, radiusKm) ==
  FilterDistance(FilterQuery(FilterProfession(list, profession), query), location, radiusKm)

\* line 200: onChangeText of the search box
SetSearchQuery ==
  /\ \E q \in Queries :
       /\ q # searchQuery
       /\ searchQuery' = q
       /\ filteredWorkers' =
            FilterEffect(workers, selectedProfession, q, userLocation, maxDistance)
  /\ UNCHANGED <<selectedProfession, maxDistance, workers, userLocation, loading>>

\* lines 212-214: a tap on a profession tag selects it, or clears it when
\* it is the selected one
ToggleProfession ==
  /\ \E item \in PROFESSIONS :
       LET next == IF selectedProfession = item THEN Null ELSE item
       IN /\ selectedProfession' = next
          /\ filteredWorkers' =
               FilterEffect(workers, next, searchQuery, userLocation, maxDistance)
  /\ UNCHANGED <<searchQuery, maxDistance, workers, userLocation, loading>>

\* line 247: a tap on a distance button
SetMaxDistance ==
  /\ \E distance \in DistanceButtons :
       /\ distance # maxDistance
       /\ maxDistance' = distance
       /\ filteredWorkers' =
            FilterEffect(workers, selectedProfession, searchQuery, userLocation, distance)
  /\ UNCHANGED <<searchQuery, selectedProfession, workers, userLocation, loading>>

\* lines 91-109: loadLocation finishes; getCurrentLocation gave a location,
\* or null (also when it failed)
LoadLocation ==
  /\ loading
  /\ loading' = FALSE
  /\ \E location \in { <<>> } \cup { <<c>> : c \in UserLocations } :
       /\ userLocation' = location
       /\ filteredWorkers' =
            FilterEffect(workers, selectedProfession, searchQuery, location, maxDistance)
  /\ UNCHANGED <<searchQuery, selectedProfession, maxDistance, workers>>

\* lines 82-88
SearchInit ==
  /\ searchQuery = <<>>
  /\ selectedProfession = Null
  /\ maxDistance = 50
  /\ workers \in WorkerLists(MaxWorkers)
  /\ filteredWorkers = workers
  /\ userLocation = <<>>
  /\ loading = TRUE

\* lines 14-63: the list the screen ships with
MOCK_WORKERS ==
  << CHOOSE w \in WorkerPool : w.id = 1, CHOOSE w \in WorkerPool : w.id = 2 >>

\* ------------------------------------------------------------------------
\* location-service: callers of calculateDistance and isWithinRadius
\* ------------------------------------------------------------------------
\* radii in km
Radii == DistanceButtons \cup {0}

VARIABLES
  point,      \* first argument of the calls
  center,     \* second argument of the calls
  radiusKm,   \* third argument of isWithinRadius
  distance,   \* what calculateDistance(point, center) returned
  reverse,    \* what calculateDistance(center, point) returned
  within,     \* what isWithinRadius(point, center, radiusKm) returned
  returned    \* the calls that have returned

distanceVars == <<point, center, radiusKm, distance, reverse, within, returned>>

\* a radius test that leaves out a point exactly at the radius
isWithinRadiusStrict(p, c, r) ==
  calculateDistance(p, c) \in 0..(r * 10 - 1)

\* lines 198-205
isWithinRadius(p, c, r) ==
  LessOrEqual(calculateDistance(p, c), r * 10)

\* calculateDistance(point, center) is called
MeasureDistance ==
  /\ "distance" \notin returned
  /\ distance' = calculateDistance(point, center)
  /\ returned' = returned \cup {"distance"}
  /\ UNCHANGED <<point, center, radiusKm, reverse, within>>

\* calculateDistance(center, point) is called
MeasureReverse ==
  /\ "reverse" \notin returned
  /\ reverse' = calculateDistance(center, point)
  /\ returned' = returned \cup {"reverse"}
  /\ UNCHANGED <<point, center, radiusKm, distance, within>>

\* isWithinRadius(point, center, radiusKm) is called
CheckWithinRadius ==
  /\ "within" \notin returned
  /\ within' = isWithinRadius(point, center, radiusKm)
  /\ returned' = returned \cup {"within"}
  /\ UNCHANGED <<point, center, radiusKm, distance, reverse>>

\* the arguments, for every pair of coordinates and every radius
DistanceInit ==
  /\ point \in Coords
  /\ center \in Coords
  /\ radiusKm \in Radii
  /\ distance = 0
  /\ reverse = 0
  /\ within = FALSE
  /\ returned = {}

\* ------------------------------------------------------------------------
\* payment-service and money-transfer-service
\* ------------------------------------------------------------------------
\* Every exported call has one of three shapes.  returns is what the call
\* gives back ("object", "list" or "flag"), reads is what it takes from the
\* response: "fields" of the parsed JSON body, the parsed "json" as it is,
\* the "blob", a "list" field of the parsed body, or "ok" alone.
Call(name, returns, reads) == [name |-> name, returns |-> returns, reads |-> reads]

PaymentCalls ==
  { Call("initializeStripePayment", "object", "fields"),
    Call("processStripePayment", "object", "fields"),
    Call("initializePayPalPayment", "object", "fields"),
    Call("capturePayPalPayment", "object", "fields"),
    Call("initializeApplePayPayment", "object", "fields"),
    Call("processApplePayPayment", "object", "fields"),
    Call("initializeGooglePayPayment", "object", "fields"),
    Call("processGooglePayPayment", "object", "fields"),
    Call("getPaymentMethods", "list", "list"),
    Call("addPaymentMethod", "object", "json"),
    Call("deletePaymentMethod", "flag", "ok"),
    Call("getInvoices", "list", "list"),
    Call("downloadInvoice", "object", "blob") }

TransferCalls ==
  { Call("initializeVodafoneCashTransfer", "object", "fields"),
    Call("confirmVodafoneCashTransfer", "object", "fields"),
    Call("initializeCardTransfer", "object", "fields"),
    Call("initializeBankTransfer", "object", "fields"),
    Call("initializeDigitalWalletTransfer", "object", "fields"),
    Call("getTransferFees", "object", "json"),
    Call("getTransferHistory", "list", "list"),
    Call("cancelTransfer", "flag", "ok"),
    Call("getTransferStatus", "object", "fields"),
    Call("addRecipient", "object", "json"),
    Call("getRecipients", "list", "list"),
    Call("deleteRecipient", "flag", "ok") }

ServiceCalls == PaymentCalls \cup TransferCalls

\* What fetch does: it rejects ("throws"), or resolves with a response
\* whose ok is TRUE or FALSE.  body is what reading the response gives:
\* "throws" (malformed JSON, a failed read), the JSON value null, an object
\* without the fields the call reads ("empty"), or a complete one ("full").
Responses ==
  { [fetch |-> f, body |-> b] :
      f \in {"throws", "ok", "notok"}, b \in {"throws", "null", "empty", "full"} }

VARIABLES
  serviceCall,      \* the latest call, NoCall before the first
  serviceResponse,  \* what the network did for it
  serviceResult,    \* what the call returned
  serviceThrew      \* the call threw instead of returning

serviceVars == <<serviceCall, serviceResponse, serviceResult, serviceThrew>>

NoCall == Call("none", "none", "none")

\* the try block of a call; thrown tells that it ended by an exception
TryCall(call, response) ==
  IF response.fetch = "throws" THEN [thrown |-> TRUE, value |-> "none"]
  ELSE IF call.reads = "ok"
  THEN [thrown |-> FALSE, value |-> IF response.fetch = "ok" THEN "true" ELSE "false"]
  ELSE IF response.fetch = "notok" THEN [thrown |-> TRUE, value |-> "none"]
  ELSE IF response.body = "throws" THEN [thrown |-> TRUE, value |-> "none"]
  ELSE IF call.reads = "blob" THEN [thrown |-> FALSE, value |-> "blob"]
  ELSE IF call.reads = "json"
  THEN [thrown |-> FALSE, value |-> IF response.body = "null" THEN "null" ELSE "object"]
  ELSE IF response.body = "null" THEN [thrown |-> TRUE, value |-> "none"]
  ELSE IF call.reads = "fields" THEN [thrown |-> FALSE, value |-> "object"]
  ELSE [thrown |-> FALSE, value |-> IF response.body = "full" THEN "[item]" ELSE "[]"]

\* what the catch block of a call returns
Sentinel(call) ==
  CASE call.returns = "object" -> "null"
    [] call.returns = "list" -> "[]"
    [] call.returns = "flag" -> "false"

\* a call whose body is not wrapped in try / catch
RunCallUnwrapped(call, response) == TryCall(call, response)

\* a call as a whole: the try block, and the catch block when it threw
RunCall(call, response) ==
  IF TryCall(call, response).thrown
  THEN [thrown |-> FALSE, value |-> Sentinel(call)]
  ELSE TryCall(call, response)

\* one of the service calls is made and runs to its end
CallService ==
  /\ \E call \in ServiceCalls, response \in Responses :
       /\ serviceCall' = call
       /\ serviceResponse' = response
       /\ serviceResult' = RunCall(call, response).value
       /\ serviceThrew' = RunCall(call, response).thrown

ServiceInit ==
  /\ serviceCall = NoCall
  /\ serviceResponse = [fetch |-> "none", body |-> "none"]
  /\ serviceResult = "none"
  /\ serviceThrew = FALSE

ServiceAtRest == ServiceInit

\* ------------------------------------------------------------------------
\* location-service: getCurrentLocation
\* ------------------------------------------------------------------------
\* an absent value of an optional field
Undefined == <<"<undefined>">>

PermissionStatuses == {"granted", "denied", "undetermined"}

\* what a permission call of the SDK does: it resolves with a status or
\* rejects
PermissionOutcomes == PermissionStatuses \cup {"throws"}

\* what getCurrentPositionAsync does
PositionOutcomes ==
  { [throws |-> TRUE, coords |-> Equator0] }
    \cup { [throws |-> FALSE, coords |-> c] : c \in {Riyadh1, Equator0, South12} }

\* entries of a reverse-geocoding result; "" is a missing component
Places ==
  { [street |-> s, city |-> c, region |-> r] :
      s \in {"", "King Fahd Rd"}, c \in {"", "Riyadh"}, r \in {"", "Riyadh Province"} }

\* what reverseGeocodeAsync does: it rejects, or resolves with a list of
\* places, which may be empty
GeocodeOutcomes ==
  { [throws |-> TRUE, places |-> <<>>] }
    \cup { [throws |-> FALSE, places |-> l] :
             l \in { <<>> } \cup { <<p>> : p \in Places }
                            \cup { <<p, q>> : p \in Places, q \in {[street |-> "", city |-> "Jeddah", region |-> ""]} } }

VARIABLES
  locPc,        \* where getCurrentLocation is: "idle", "check", "request", "position", "geocode", "done"
  sdkCalls,     \* the SDK calls of the latest run, in order
  checked,      \* what getForegroundPermissionsAsync did, "none" before
  requested,    \* what requestForegroundPermissionsAsync did, "none" before
  positioned,   \* what getCurrentPositionAsync did
  geocoded,     \* what reverseGeocodeAsync did
  located,      \* what getCurrentLocation returned: <<>> for null, <<data>> otherwise
  locThrew      \* getCurrentLocation threw instead of returning

locatingVars ==
  <<locPc, sdkCalls, checked, requested, positioned, geocoded, located, locThrew>>

NotPositioned == [called |-> FALSE, throws |-> FALSE, coords |-> Equator0]
NotGeocoded == [called |-> FALSE, throws |-> FALSE, places |-> <<>>]

\* lines 26-47: requestLocationPermission and checkLocationPermission give
\* status === 'granted', and false when the SDK call throws
Granted(outcome) == outcome = "granted"

\* line 78: [street, city, region].filter(Boolean).join(', '), kept as the
\* list of the parts joined
JoinAddress(place) ==
  SelectSeq(<<place.street, place.city, place.region>>, LAMBDA part : part # "")

\* lines 70-82: the address, undefined unless the result has an entry
AddressOf(outcome) ==
  IF outcome.throws THEN Undefined
  ELSE IF Len(outcome.places) > 0 THEN JoinAddress(outcome.places[1])
  ELSE Undefined

LocationData(coords, address) ==
  [latitude |-> coords.latitude, longitude |-> coords.longitude, address |-> address]

\* a run that goes on to read the position after a denied request
AfterRequestReadAnyway(outcome) == "position"

\* lines 56-60: after the request, return null unless it was granted
AfterRequest(outcome) == IF Granted(outcome) THEN "position" ELSE "done"

\* a run whose reverse geocoding is not wrapped in a try of its own, so
\* that its failure reaches the outer catch
ReturnedNoInnerTry(coords, outcome) ==
  IF outcome.throws THEN <<>>
  ELSE <<LocationData(coords, AddressOf(outcome))>>

\* lines 67-92: what is returned once the position is read
Returned(coords, outcome) == <<LocationData(coords, AddressOf(outcome))>>

\* line 52: getCurrentLocation is called
GetCurrentLocation ==
  /\ locPc \in {"idle", "done"}
  /\ locPc' = "check"
  /\ sdkCalls' = <<>>
  /\ checked' = "none"
  /\ requested' = "none"
  /\ positioned' = NotPositioned
  /\ geocoded' = NotGeocoded
  /\ located' = <<>>
  /\ locThrew' = FALSE

\* line 54: await checkLocationPermission()
CheckPermission ==
  /\ locPc = "check"
  /\ \E outcome \in PermissionOutcomes :
       /\ checked' = outcome
       /\ locPc' = IF Granted(outcome) THEN "position" ELSE "request"
  /\ sdkCalls' = Append(sdkCalls, "getForegroundPermissionsAsync")
  /\ UNCHANGED <<requested, positioned, geocoded, located, locThrew>>

\* lines 56-60: await requestLocationPermission()
RequestPermission ==
  /\ locPc = "request"
  /\ \E outcome \in PermissionOutcomes :
       /\ requested' = outcome
       /\ locPc' = AfterRequest(outcome)
  /\ sdkCalls' = Append(sdkCalls, "requestForegroundPermissionsAsync")
  /\ UNCHANGED <<checked, positioned, geocoded, located, locThrew>>

\* lines 63-67, 93-96: await Location.getCurrentPositionAsync; a rejection
\* goes to the outer catch, which returns null
ReadPosition ==
  /\ locPc = "position"
  /\ \E outcome \in PositionOutcomes :
       /\ positioned' = [called |-> TRUE, throws |-> outcome.throws, coords |-> outcome.coords]
       /\ locPc' = IF outcome.throws THEN "done" ELSE "geocode"
  /\ sdkCalls' = Append(sdkCalls, "getCurrentPositionAsync")
  /\ UNCHANGED <<checked, requested, geocoded, located, locThrew>>

\* lines 70-92: await Location.reverseGeocodeAsync in its own try, then the
\* return
ReverseGeocode ==
  /\ locPc = "geocode"
  /\ \E outcome \in GeocodeOutcomes :
       /\ geocoded' = [called |-> TRUE, throws |-> outcome.throws, places |-> outcome.places]
       /\ located' = Returned(positioned.coords, outcome)
  /\ locPc' = "done"
  /\ sdkCalls' = Append(sdkCalls, "reverseGeocodeAsync")
  /\ UNCHANGED <<checked, requested, positioned, locThrew>>

LocatingInit ==
  /\ locPc = "idle"
  /\ sdkCalls = <<>>
  /\ checked = "none"
  /\ requested = "none"
  /\ positioned = NotPositioned
  /\ geocoded = NotGeocoded
  /\ located = <<>>
  /\ locThrew = FALSE

LocatingAtRest == LocatingInit

\* ------------------------------------------------------------------------
\* Money-transfer wizard (src/unnamed/part_004, MoneyTransferScreen)
\* ------------------------------------------------------------------------
\* lines 37-62: the ids of TRANSFER_METHODS, in list order
TRANSFER_METHODS == <<"vodafone_cash", "card", "bank_transfer", "digital_wallet">>

TransferMethods == { TRANSFER_METHODS[i] : i \in DOMAIN TRANSFER_METHODS }

\* line 74: selectedMethod === null
NoMethod == "none"

\* lines 71-73: the values of step, in the order of the content switch
Steps == <<"method", "recipient", "amount", "confirm">>

\* texts typed into the recipient field (line 199) and into the amount
\* field, as sequences of characters
RecipientTexts == { <<>>, <<" ">>, <<"a">>, <<" ", "a">> }

AmountTexts ==
  { <<>>, <<"0">>, <<"5">>, <<"5", "0">>, <<"a">>, <<".">>, <<"5", "a">>, <<" ", "5">> }

\* String.prototype.trim: white space is dropped at both ends
RECURSIVE trimStart(_)
trimStart(text) ==
  IF text # <<>> /\ Head(text) = " " THEN trimStart(Tail(text)) ELSE text

RECURSIVE trimEnd(_)
trimEnd(text) ==
  IF text # <<>> /\ text[Len(text)] = " "
  THEN trimEnd(SubSeq(text, 1, Len(text) - 1))
  ELSE text

trim(text) == trimEnd(trimStart(text))

DecimalDigits == <<"0", "1", "2", "3", "4", "5", "6", "7", "8", "9">>

IsDigit(c) == \E i \in DOMAIN DecimalDigits : DecimalDigits[i] = c

DigitValue(c) == (CHOOSE i \in DOMAIN DecimalDigits : DecimalDigits[i] = c) - 1

\* the value of the longest run of digits text starts with, after value
RECURSIVE LeadingDigits(_, _)
LeadingDigits(text, value) ==
  IF text # <<>> /\ IsDigit(Head(text))
  THEN LeadingDigits(Tail(text), value * 10 + DigitValue(Head(text)))
  ELSE value

\* parseFloat of a text without sign, fraction digits or exponent: leading
\* white space is skipped, the longest run of digits is read, NaN when the
\* text does not start with a digit
parseFloat(text) ==
  IF trimStart(text) # <<>> /\ IsDigit(Head(trimStart(text)))
  THEN LeadingDigits(trimStart(text), 0)
  ELSE NaN

\* the fees a fee response may carry
Fees == {5, 10}

\* getTransferFees (money-transfer-service.ts 282-298): null, or the
\* response body
FeeResponses == { <<>> } \cup { <<[fee |-> f]>> : f \in Fees }

\* what an initialize...Transfer call returns (money-transfer-service.ts
\* 52-277): null, or a transfer of its own method and of the amount passed
MoneyTransfer(method, value) == [method |-> method, amount |-> value]

InitResponses(request) ==
  { <<>>, <<MoneyTransfer(request.method, request.amount)>> }

\* line 77: the fee is the initial 0, no response has been taken
NoFeeRequest == [method |-> NoMethod, amount |-> NaN]

\* line 93: the arguments of the getTransferFees call for an amount text
FeeRequest(method, value) == [method |-> method, amount |-> parseFloat(value)]

VARIABLES
  step,            \* line 71
  selectedMethod,  \* line 74, NoMethod for null
  recipientInfo,   \* line 75
  amount,          \* line 76, the text of the amount field
  fee,             \* line 77
  feeOf,           \* the getTransferFees call whose response fee was taken from
  isLoading,       \* line 78
  transfer,        \* line 79, <<>> for null
  feeRequests,     \* getTransferFees calls that have not settled
  initRequests,    \* initialize...Transfer calls that have not settled, in
                   \* the order they were made
  confirmations    \* the runs of handleConfirmTransfer past its guard, in
                   \* order: the method selected and the call made

wizardVars == <<step, selectedMethod, recipientInfo, amount, fee, feeOf, isLoading, transfer,
                feeRequests, initRequests, confirmations>>

\* a screen whose content does not depend on step or transfer, so that
\* every step's controls can be pressed at any time
RenderedAlways(s) == TRUE

\* lines 417-427: the content switch shows the success view once transfer
\* is set, and otherwise the view of the current step alone
Rendered(s) == transfer = <<>> /\ step = s

\* lines 81-84, bound at line 149 to each method card
handleMethodSelect ==
  /\ Rendered("method")
  /\ \E method \in TransferMethods : selectedMethod' = method
  /\ step' = "recipient"
  /\ UNCHANGED <<recipientInfo, amount, fee, feeOf, isLoading, transfer, feeRequests,
                 initRequests, confirmations>>

\* line 199: onChangeText={setRecipientInfo}
setRecipientInfo ==
  /\ Rendered("recipient")
  /\ \E text \in RecipientTexts : recipientInfo' = text
  /\ UNCHANGED <<step, selectedMethod, amount, fee, feeOf, isLoading, transfer, feeRequests,
                 initRequests, confirmations>>

\* lines 86-89, bound at line 206 to a button disabled while the trimmed
\* recipient is empty
handleRecipientNext ==
  /\ Rendered("recipient")
  /\ trim(recipientInfo) # <<>>
  /\ step' = "amount"
  /\ UNCHANGED <<selectedMethod, recipientInfo, amount, fee, feeOf, isLoading, transfer,
                 feeRequests, initRequests, confirmations>>

\* lines 91-94: handleAmountChange up to its await
handleAmountChange ==
  /\ Rendered("amount")
  /\ \E value \in AmountTexts :
       /\ amount' = value
       /\ feeRequests' =
            IF value # <<>> /\ selectedMethod # NoMethod
            THEN feeRequests \cup { FeeRequest(selectedMethod, value) }
            ELSE feeRequests
  /\ UNCHANGED <<step, selectedMethod, recipientInfo, fee, feeOf, isLoading, transfer, initRequests,
                 confirmations>>

\* lines 94-98: a getTransferFees call settles and handleAmountChange
\* resumes
FeeSettles ==
  /\ \E request \in feeRequests :
       /\ feeRequests' = feeRequests \ {request}
       /\ \E feeData \in FeeResponses :
            /\ fee' = IF feeData # <<>> THEN feeData[1].fee ELSE fee
            /\ feeOf' = IF feeData # <<>> THEN request ELSE feeOf
  /\ UNCHANGED <<step, selectedMethod, recipientInfo, amount, isLoading, transfer,
                 initRequests, confirmations>>

\* lines 101-104, bound at line 274 to a button disabled under the same
\* condition
handleAmountNext ==
  /\ Rendered("amount")
  /\ ~(amount = <<>> \/ LessOrEqual(parseFloat(amount), 0))
  /\ step' = "confirm"
  /\ UNCHANGED <<selectedMethod, recipientInfo, amount, fee, feeOf, isLoading, transfer,
                 feeRequests, initRequests, confirmations>>

\* lines 112-127: the service call handleConfirmTransfer makes for a
\* method, "none" for a method that no branch tests for
InitializeCall(method) ==
  IF method = "vodafone_cash" THEN "initializeVodafoneCashTransfer"
  ELSE IF method = "card" THEN "initializeCardTransfer"
  ELSE IF method = "bank_transfer" THEN "initializeBankTransfer"
  ELSE "none"

\* lines 112-127: the methods handleConfirmTransfer has a call for
InitializedMethods == { method \in TransferMethods : InitializeCall(method) # "none" }

\* runs of handleConfirmTransfer on one screen, at most
MaxConfirms == 2

\* a confirm button without its disabled prop
ConfirmNeverDisabled == FALSE

\* line 337: the confirm button is disabled while isLoading
ConfirmDisabled == isLoading

\* lines 106-127, bound at line 336: handleConfirmTransfer up to its
\* await; for a method without a call it runs to its end at once, with
\* result null
handleConfirmTransfer ==
  /\ Rendered("confirm")
  /\ ~ConfirmDisabled
  /\ Len(confirmations) < MaxConfirms
  /\ ~(selectedMethod = NoMethod \/ recipientInfo = <<>> \/ amount = <<>>)
  /\ IF selectedMethod \in InitializedMethods
     THEN /\ isLoading' = TRUE
          /\ initRequests' =
               Append(initRequests, [method |-> selectedMethod, amount |-> parseFloat(amount)])
     ELSE /\ isLoading' = FALSE
          /\ initRequests' = initRequests
  /\ confirmations' =
       Append(confirmations, [method |-> selectedMethod, call |-> InitializeCall(selectedMethod)])
  /\ UNCHANGED <<step, selectedMethod, recipientInfo, amount, fee, feeOf, transfer, feeRequests>>

\* lines 129-136: the initialize...Transfer call settles and
\* handleConfirmTransfer resumes
InitSettles ==
  /\ \E i \in DOMAIN initRequests :
       /\ initRequests' =
            [j \in 1..(Len(initRequests) - 1) |->
               IF j < i THEN initRequests[j] ELSE initRequests[j + 1]]
       /\ \E response \in InitResponses(initRequests[i]) :
            transfer' = IF response # <<>> THEN response ELSE transfer
  /\ isLoading' = FALSE
  /\ UNCHANGED <<step, selectedMethod, recipientInfo, amount, fee, feeOf, feeRequests,
                 confirmations>>

\* lines 71-79: the initial values of the state hooks
WizardInit ==
  /\ step = "method"
  /\ selectedMethod = NoMethod
  /\ recipientInfo = <<>>
  /\ amount = <<>>
  /\ fee = 0
  /\ feeOf = NoFeeRequest
  /\ isLoading = FALSE
  /\ transfer = <<>>
  /\ feeRequests = {}
  /\ initRequests = <<>>
  /\ confirmations = <<>>

WizardAtRest == WizardInit

\* ------------------------------------------------------------------------
\* Location watching (src/lib/location-service.ts, watchLocation)
\* ------------------------------------------------------------------------
\* position updates delivered to one watcher, at most
MaxUpdates == 3

\* the positions the SDK reports to a watcher
WatchedCoords == {Riyadh1, Riyadh2, Equator0}

\* what watchPositionAsync does: it resolves with a subscription or rejects
WatchOutcomes == {"subscribed", "throws"}

VARIABLES
  watchPc,        \* where startWatching stands
  subscription,   \* line 139: the subscription variable, "null" or "set"
  watcher,        \* the SDK's position watcher: "none", "active", "removed"
  cleanedUp,      \* the function returned by watchLocation has been called
  received,       \* the arguments of the onLocationChange calls, in order
  lateCalls,      \* onLocationChange calls made after the cleanup call
  watchErrors     \* the onError calls, in order

watchVars == <<watchPc, subscription, watcher, cleanedUp, received, lateCalls, watchErrors>>

\* lines 150-156: what the position callback hands to onLocationChange
WatchedLocation(coords) == [latitude |-> coords.latitude, longitude |-> coords.longitude]

\* lines 136-170: watchLocation is called; startWatching runs up to its
\* first await and the cleanup function is returned
WatchLocation ==
  /\ watchPc = "idle"
  /\ watchPc' = "check"
  /\ UNCHANGED <<subscription, watcher, cleanedUp, received, lateCalls, watchErrors>>

\* lines 143-146, 158-163: await checkLocationPermission(); without the
\* permission the error is thrown to the catch, which calls onError
WatchCheckPermission ==
  /\ watchPc = "check"
  /\ \E outcome \in PermissionOutcomes :
       IF Granted(outcome)
       THEN /\ watchPc' = "subscribe"
            /\ watchErrors' = watchErrors
       ELSE /\ watchPc' = "failed"
            /\ watchErrors' = Append(watchErrors, "Location permission not granted")
  /\ UNCHANGED <<subscription, watcher, cleanedUp, received, lateCalls>>

\* lines 148-163: await Location.watchPositionAsync(...); its result is
\* assigned to subscription, a rejection goes to the catch
WatchPosition ==
  /\ watchPc = "subscribe"
  /\ \E outcome \in WatchOutcomes :
       IF outcome = "subscribed"
       THEN /\ watchPc' = "watching"
            /\ subscription' = "set"
            /\ watcher' = "active"
            /\ watchErrors' = watchErrors
       ELSE /\ watchPc' = "failed"
            /\ watchErrors' = Append(watchErrors, "watchPositionAsync failed")
            /\ UNCHANGED <<subscription, watcher>>
  /\ UNCHANGED <<cleanedUp, received, lateCalls>>

\* lines 154-161: the SDK reports a position to a watcher that has not been
\* removed, and the callback calls onLocationChange
PositionUpdate ==
  /\ watcher = "active"
  /\ Len(received) < MaxUpdates
  /\ \E coords \in WatchedCoords : received' = Append(received, WatchedLocation(coords))
  /\ lateCalls' = IF cleanedUp THEN lateCalls + 1 ELSE lateCalls
  /\ UNCHANGED <<watchPc, subscription, watcher, cleanedUp, watchErrors>>

\* lines 171-175: the cleanup function is called
Cleanup ==
  /\ watchPc # "idle"
  /\ cleanedUp' = TRUE
  /\ watcher' = IF subscription # "null" THEN "removed" ELSE watcher
  /\ UNCHANGED <<watchPc, subscription, received, lateCalls, watchErrors>>

\* watchLocation has not been called
WatchInit ==
  /\ watchPc = "idle"
  /\ subscription = "null"
  /\ watcher = "none"
  /\ cleanedUp = FALSE
  /\ received = <<>>
  /\ lateCalls = 0
  /\ watchErrors = <<>>

WatchAtRest == WatchInit

\* ------------------------------------------------------------------------
\* Language preference (src/lib/i18n.ts, src/hooks/use-language.ts,
\* src/app/settings.tsx)
\* ------------------------------------------------------------------------
\* i18n.ts lines 13-19: Object.keys(resources); use-language.ts line 19 has
\* the same list as availableLanguages
resources == <<"ar", "en", "fr", "es", "de">>

SupportedLanguages == { resources[i] : i \in DOMAIN resources }

\* use-language.ts line 42, i18n.ts line 72
rtlLanguages == {"ar", "he", "ur"}

\* i18n.ts line 22: the device languages the app is started with
DeviceLanguages == {"en", "ja"}

\* AsyncStorage.getItem('app_language') when nothing is stored
NoPreference == "null"

\* what may be stored under app_language when the app starts
StoredPreferences == {NoPreference, "ar", "en", "he"}

\* the language codes setLanguage is called with
LanguageCodes == {"ar", "en", "he", "ja"}

\* settings.tsx lines 20-26: the languages of the list that are tapped
TappedLanguages == {"ar", "en", "fr"}

\* asynchronous calls of the four functions in flight at once, at most
MaxTasks == 2

VARIABLES
  i18nLanguage,      \* i18n.language, the active language
  stored,            \* the value stored under app_language
  currentLanguage,   \* use-language.ts line 16
  isRTL,             \* use-language.ts line 17
  selectedLanguage,  \* settings.tsx line 38
  stableDeps,        \* the build keeps availableLanguages the same array
                     \* from render to render
  effectDue,         \* the load effect of useLanguage is due to run
  tasks,             \* the calls in flight, each waiting at an await
  lastChange         \* the latest changeLanguage call of the hook and how
                     \* far it got

languageVars ==
  <<i18nLanguage, stored, currentLanguage, isRTL, selectedLanguage, stableDeps, effectDue,
    tasks, lastChange>>

\* a call in flight: the function, the await it is waiting at ("read" for
\* getItem, "activate" for i18n.changeLanguage, "persist" for setItem) and
\* the language it works on
Task(fn, pc, language) == [fn |-> fn, pc |-> pc, language |-> language]

NoChange == [language |-> NoPreference, status |-> "none"]

RemoveAt(seq, i) ==
  [j \in 1..(Len(seq) - 1) |-> IF j < i THEN seq[j] ELSE seq[j + 1]]

\* the functions of the hook, which also set its state
HookFunctions == {"loadLanguage", "changeLanguage"}

\* use-language.ts lines 41-44: updateRTL
updateRTL(language) == language \in rtlLanguages

\* use-language.ts line 39: the effect depends on availableLanguages, a new
\* array at every render unless the build memoizes it, so that it runs again
\* after every render
Reruns(changed) == ~stableDeps /\ changed

\* a render of SettingsScreen follows every change of its state and of the
\* active language (useTranslation)
AfterRender(changed) == effectDue' = (effectDue \/ Reruns(changed))

\* use-language.ts lines 21-38: the load effect runs, loadLanguage is called
\* and waits for getItem
RunLoadEffect ==
  /\ effectDue
  /\ Len(tasks) < MaxTasks
  /\ effectDue' = FALSE
  /\ tasks' = Append(tasks, Task("loadLanguage", "read", NoPreference))
  /\ UNCHANGED <<i18nLanguage, stored, currentLanguage, isRTL, selectedLanguage, stableDeps,
                 lastChange>>

\* settings.tsx lines 40-43 and use-language.ts lines 46-49: a language of
\* the list is tapped; changeLanguage waits for i18n.changeLanguage.  One
\* changeLanguage call is followed at a time.
handleLanguageChange ==
  /\ Len(tasks) < MaxTasks
  /\ \A i \in DOMAIN tasks : tasks[i].fn # "changeLanguage"
  /\ \E language \in TappedLanguages :
       /\ selectedLanguage' = language
       /\ tasks' = Append(tasks, Task("changeLanguage", "activate", language))
       /\ lastChange' = [language |-> language, status |-> "started"]
       /\ AfterRender(selectedLanguage # language)
  /\ UNCHANGED <<i18nLanguage, stored, currentLanguage, isRTL, stableDeps>>

\* i18n.ts lines 40-49: loadLanguagePreference is called and waits for
\* getItem
loadLanguagePreference ==
  /\ Len(tasks) < MaxTasks
  /\ tasks' = Append(tasks, Task("loadLanguagePreference", "read", NoPreference))
  /\ UNCHANGED <<i18nLanguage, stored, currentLanguage, isRTL, selectedLanguage, stableDeps,
                 effectDue, lastChange>>

\* a setLanguage that does not look the language up in resources
SetLanguageUnchecked(language) ==
  tasks' = Append(tasks, Task("setLanguage", "activate", language))

\* i18n.ts lines 52-55: setLanguage up to its first await; a language
\* without resources is ignored
SetLanguageCalled(language) ==
  tasks' = IF language \in SupportedLanguages
           THEN Append(tasks, Task("setLanguage", "activate", language))
           ELSE tasks

setLanguage ==
  /\ Len(tasks) < MaxTasks
  /\ \E language \in LanguageCodes : SetLanguageCalled(language)
  /\ UNCHANGED <<i18nLanguage, stored, currentLanguage, isRTL, selectedLanguage, stableDeps,
                 effectDue, lastChange>>

\* i18n.ts lines 42-45, use-language.ts lines 25-32: getItem resolves; a
\* supported saved language goes on to i18n.changeLanguage, otherwise the
\* call ends (the hook calls updateRTL(i18n.language) before)
ReadResolves(i) ==
  /\ tasks[i].pc = "read"
  /\ IF stored \in SupportedLanguages
     THEN /\ tasks' = [tasks EXCEPT ![i] = Task(tasks[i].fn, "activate", stored)]
          /\ UNCHANGED <<isRTL, effectDue>>
     ELSE /\ tasks' = RemoveAt(tasks, i)
          /\ IF tasks[i].fn \in HookFunctions
             THEN /\ isRTL' = updateRTL(i18nLanguage)
                  /\ AfterRender(isRTL' # isRTL)
             ELSE UNCHANGED <<isRTL, effectDue>>
  /\ UNCHANGED <<i18nLanguage, stored, currentLanguage, selectedLanguage, stableDeps,
                 lastChange>>

\* i18n.ts lines 44, 55-56, use-language.ts lines 27-29, 48-49:
\* i18n.changeLanguage resolves.  A load ends here (the hook sets
\* currentLanguage and isRTL), setLanguage and changeLanguage go on to
\* setItem.
ActivateResolves(i) ==
  /\ tasks[i].pc = "activate"
  /\ i18nLanguage' = tasks[i].language
  /\ IF tasks[i].fn \in {"setLanguage", "changeLanguage"}
     THEN /\ tasks' = [tasks EXCEPT ![i] = Task(tasks[i].fn, "persist", tasks[i].language)]
          /\ AfterRender(i18nLanguage' # i18nLanguage)
          /\ UNCHANGED <<currentLanguage, isRTL>>
     ELSE /\ tasks' = RemoveAt(tasks, i)
          /\ IF tasks[i].fn \in HookFunctions
             THEN /\ currentLanguage' = tasks[i].language
                  /\ isRTL' = updateRTL(tasks[i].language)
                  /\ AfterRender(i18nLanguage' # i18nLanguage
                                 \/ currentLanguage' # currentLanguage \/ isRTL' # isRTL)
             ELSE /\ AfterRender(i18nLanguage' # i18nLanguage)
                  /\ UNCHANGED <<currentLanguage, isRTL>>
  /\ lastChange' = IF tasks[i].fn = "changeLanguage"
                   THEN [lastChange EXCEPT !.status = "activated"]
                   ELSE lastChange
  /\ UNCHANGED <<stored, selectedLanguage, stableDeps>>

\* i18n.ts line 56, use-language.ts lines 49-51: setItem resolves and the
\* call ends; the hook sets currentLanguage and isRTL
PersistResolves(i) ==
  /\ tasks[i].pc = "persist"
  /\ tasks[i].fn \in {"setLanguage", "changeLanguage"}
  /\ stored' = tasks[i].language
  /\ tasks' = RemoveAt(tasks, i)
  /\ IF tasks[i].fn \in HookFunctions
     THEN /\ currentLanguage' = tasks[i].language
          /\ isRTL' = updateRTL(tasks[i].language)
          /\ AfterRender(currentLanguage' # currentLanguage \/ isRTL' # isRTL)
          /\ lastChange' = [lastChange EXCEPT !.status = "done"]
     ELSE UNCHANGED <<currentLanguage, isRTL, effectDue, lastChange>>
  /\ UNCHANGED <<i18nLanguage, selectedLanguage, stableDeps>>

\* i18n.ts lines 46-48, 58-60, use-language.ts lines 33-35, 52-54: the
\* awaited call rejects, the catch logs the error and the call ends
AwaitRejects(i) ==
  /\ tasks' = RemoveAt(tasks, i)
  /\ lastChange' = IF tasks[i].fn = "changeLanguage"
                   THEN [lastChange EXCEPT !.status = "failed"]
                   ELSE lastChange
  /\ UNCHANGED <<i18nLanguage, stored, currentLanguage, isRTL, selectedLanguage, stableDeps,
                 effectDue>>

\* the functions of i18n.ts
I18nFunctions == {"loadLanguagePreference", "setLanguage"}

\* a call of one of the functions fns goes on from its await
ReadResolvesIn(fns) == \E i \in DOMAIN tasks : tasks[i].fn \in fns /\ ReadResolves(i)

ActivateResolvesIn(fns) == \E i \in DOMAIN tasks : tasks[i].fn \in fns /\ ActivateResolves(i)

PersistResolvesIn(fns) == \E i \in DOMAIN tasks : tasks[i].fn \in fns /\ PersistResolves(i)

AwaitRejectsIn(fns) == \E i \in DOMAIN tasks : tasks[i].fn \in fns /\ AwaitRejects(i)

\* i18n.ts lines 25-37, use-language.ts lines 16-17, settings.tsx line 38:
\* the app has started and SettingsScreen is mounted for the first time
LanguageInit ==
  /\ i18nLanguage \in DeviceLanguages
  /\ stored \in StoredPreferences
  /\ currentLanguage = i18nLanguage
  /\ isRTL = FALSE
  /\ selectedLanguage = i18nLanguage
  /\ stableDeps \in BOOLEAN
  /\ effectDue = TRUE
  /\ tasks = <<>>
  /\ lastChange = NoChange

LanguageAtRest ==
  /\ i18nLanguage = "en"
  /\ stored = NoPreference
  /\ currentLanguage = "en"
  /\ isRTL = FALSE
  /\ selectedLanguage = "en"
  /\ stableDeps = FALSE
  /\ effectDue = FALSE
  /\ tasks = <<>>
  /\ lastChange = NoChange

\* ------------------------------------------------------------------------
\* Rating screen (src/app/rating.tsx, RatingScreen)
\* ------------------------------------------------------------------------
\* reviews submitted on one screen, at most
MaxSubmissions == 2

\* lines 94, 162: the stars of the form
Stars == 1..5

\* texts typed into the comment field (line 179)
CommentTexts == { <<>>, <<"a">> }

\* src/unnamed/part_001 lines 280-287: a review, by its id, score and comment
Rating(id, score, text) == [id |-> id, score |-> score, comment |-> text]

\* lines 22-47: the reviews the screen starts with
MOCK_REVIEWS ==
  << Rating("1", 5, <<"g">>), Rating("2", 4, <<"o">>), Rating("3", 5, <<"p">>) >>

VARIABLES
  rating,        \* line 57
  comment,       \* line 58
  reviews,       \* line 59
  isSubmitting,  \* line 60
  timer          \* the setTimeout callbacks of line 73 that have not run, each
                 \* with the rating and the comment it was created with

ratingVars == <<rating, comment, reviews, isSubmitting, timer>>

\* line 189: the submit button is disabled without a rating and while a
\* submission is under way
SubmitDisabled == rating = 0 \/ isSubmitting

\* a list that is replaced by the new review
ReplacedBy(newReview, prev) == <<newReview>>

\* line 83: [newReview, ...prev]
Prepended(newReview, prev) == <<newReview>> \o prev

\* lines 74-81: the review built by the callback, from the rating and the
\* comment of the render handleSubmitRating was called in
NewReview(submitted) ==
  Rating("review", submitted.rating,
         IF submitted.comment # <<>> THEN submitted.comment ELSE Undefined)

\* lines 90-106, 162: a star of the form is tapped
TapStar ==
  /\ \E index \in Stars : rating' = index
  /\ UNCHANGED <<comment, reviews, isSubmitting, timer>>

\* line 179: onChangeText={setComment}
SetComment ==
  /\ \E text \in CommentTexts : comment' = text
  /\ UNCHANGED <<rating, reviews, isSubmitting, timer>>

\* lines 67-73, bound at line 188: handleSubmitRating up to setTimeout
handleSubmitRating ==
  /\ ~SubmitDisabled
  /\ rating # 0
  /\ Len(reviews) + Len(timer) < Len(MOCK_REVIEWS) + MaxSubmissions
  /\ isSubmitting' = TRUE
  /\ timer' = Append(timer, [rating |-> rating, comment |-> comment])
  /\ UNCHANGED <<rating, comment, reviews>>

\* lines 73-87: the callback of the oldest timer runs
TimerFires ==
  /\ timer # <<>>
  /\ reviews' = Prepended(NewReview(Head(timer)), reviews)
  /\ rating' = 0
  /\ comment' = <<>>
  /\ isSubmitting' = FALSE
  /\ timer' = Tail(timer)

\* lines 57-60: the initial values of the state hooks
RatingInit ==
  /\ rating = 0
  /\ comment = <<>>
  /\ reviews = MOCK_REVIEWS
  /\ isSubmitting = FALSE
  /\ timer = <<>>

RatingAtRest == RatingInit

\* ------------------------------------------------------------------------
\* Specifications
\* ------------------------------------------------------------------------
SearchAtRest ==
  /\ searchQuery = <<>>
  /\ selectedProfession = Null
  /\ maxDistance = 50
  /\ workers = MOCK_WORKERS
  /\ filteredWorkers = MOCK_WORKERS
  /\ userLocation = <<>>
  /\ loading = TRUE

LoginAtRest ==
  /\ platform = "ios"
  /\ isLoggingIn = FALSE
  /\ pending = 0
  /\ locationHref = "app"
  /\ result = NoResult
  /\ parserInput = Null
  /\ navs = <<>>
  /\ errors = <<>>
  /\ escaped = FALSE

DistanceAtRest ==
  /\ point = Equator0
  /\ center = Equator0
  /\ radiusKm = 0
  /\ distance = 0
  /\ reverse = 0
  /\ within = FALSE
  /\ returned = {}

vars == <<loginVars, searchVars, distanceVars, serviceVars, locatingVars, wizardVars, watchVars, languageVars, ratingVars>>

\* what each part of the client leaves alone
outsideLogin == <<searchVars, distanceVars, serviceVars, locatingVars, wizardVars, watchVars, languageVars, ratingVars>>
outsideSearch == <<loginVars, distanceVars, serviceVars, locatingVars, wizardVars, watchVars, languageVars, ratingVars>>
outsideDistance == <<loginVars, searchVars, serviceVars, locatingVars, wizardVars, watchVars, languageVars, ratingVars>>
outsideService == <<loginVars, searchVars, distanceVars, locatingVars, wizardVars, watchVars, languageVars, ratingVars>>
outsideLocating == <<loginVars, searchVars, distanceVars, serviceVars, wizardVars, watchVars, languageVars, ratingVars>>
outsideWizard == <<loginVars, searchVars, distanceVars, serviceVars, locatingVars, watchVars, languageVars, ratingVars>>
outsideWatch == <<loginVars, searchVars, distanceVars, serviceVars, locatingVars, wizardVars, languageVars, ratingVars>>
outsideLanguage == <<loginVars, searchVars, distanceVars, serviceVars, locatingVars, wizardVars, watchVars, ratingVars>>
outsideRating == <<loginVars, searchVars, distanceVars, serviceVars, locatingVars, wizardVars, watchVars, languageVars>>

LoginNext ==
  \/ TapLogin /\ UNCHANGED outsideLogin
  \/ BrowserSettle /\ UNCHANGED outsideLogin
  \/ BrowserReject /\ UNCHANGED outsideLogin

SearchNext ==
  \/ SetSearchQuery /\ UNCHANGED outsideSearch
  \/ ToggleProfession /\ UNCHANGED outsideSearch
  \/ SetMaxDistance /\ UNCHANGED outsideSearch
  \/ LoadLocation /\ UNCHANGED outsideSearch

DistanceNext ==
  \/ MeasureDistance /\ UNCHANGED outsideDistance
  \/ MeasureReverse /\ UNCHANGED outsideDistance
  \/ CheckWithinRadius /\ UNCHANGED outsideDistance

ServiceNext ==
  \/ CallService /\ UNCHANGED outsideService

LocatingNext ==
  \/ GetCurrentLocation /\ UNCHANGED outsideLocating
  \/ CheckPermission /\ UNCHANGED outsideLocating
  \/ RequestPermission /\ UNCHANGED outsideLocating
  \/ ReadPosition /\ UNCHANGED outsideLocating
  \/ ReverseGeocode /\ UNCHANGED outsideLocating

WizardNext ==
  \/ handleMethodSelect /\ UNCHANGED outsideWizard
  \/ setRecipientInfo /\ UNCHANGED outsideWizard
  \/ handleRecipientNext /\ UNCHANGED outsideWizard
  \/ handleAmountChange /\ UNCHANGED outsideWizard
  \/ FeeSettles /\ UNCHANGED outsideWizard
  \/ handleAmountNext /\ UNCHANGED outsideWizard
  \/ handleConfirmTransfer /\ UNCHANGED outsideWizard
  \/ InitSettles /\ UNCHANGED outsideWizard

\* one step of a location watcher
WatchNext ==
  \/ WatchLocation /\ UNCHANGED outsideWatch
  \/ WatchCheckPermission /\ UNCHANGED outsideWatch
  \/ WatchPosition /\ UNCHANGED outsideWatch
  \/ PositionUpdate /\ UNCHANGED outsideWatch
  \/ Cleanup /\ UNCHANGED outsideWatch

\* one step of the useLanguage hook in SettingsScreen
LanguageNext ==
  \/ RunLoadEffect /\ UNCHANGED outsideLanguage
  \/ handleLanguageChange /\ UNCHANGED outsideLanguage
  \/ ReadResolvesIn(HookFunctions) /\ UNCHANGED outsideLanguage
  \/ ActivateResolvesIn(HookFunctions) /\ UNCHANGED outsideLanguage
  \/ PersistResolvesIn(HookFunctions) /\ UNCHANGED outsideLanguage
  \/ AwaitRejectsIn(HookFunctions) /\ UNCHANGED outsideLanguage

\* one step of the functions of i18n.ts
I18nNext ==
  \/ loadLanguagePreference /\ UNCHANGED outsideLanguage
  \/ setLanguage /\ UNCHANGED outsideLanguage
  \/ ReadResolvesIn(I18nFunctions) /\ UNCHANGED outsideLanguage
  \/ ActivateResolvesIn(I18nFunctions) /\ UNCHANGED outsideLanguage
  \/ PersistResolvesIn(I18nFunctions) /\ UNCHANGED outsideLanguage
  \/ AwaitRejectsIn(I18nFunctions) /\ UNCHANGED outsideLanguage

\* one step of the rating screen
RatingNext ==
  \/ TapStar /\ UNCHANGED outsideRating
  \/ SetComment /\ UNCHANGED outsideRating
  \/ handleSubmitRating /\ UNCHANGED outsideRating
  \/ TimerFires /\ UNCHANGED outsideRating

\* the home screen is mounted, the search screen is not in use
LoginStart ==
  /\ LoginInit
  /\ SearchAtRest
  /\ DistanceAtRest
  /\ ServiceAtRest
  /\ LocatingAtRest
  /\ WizardAtRest
  /\ WatchAtRest
  /\ LanguageAtRest
  /\ RatingAtRest

\* the search screen is mounted, no login is under way
SearchStart ==
  /\ LoginAtRest
  /\ SearchInit
  /\ DistanceAtRest
  /\ ServiceAtRest
  /\ LocatingAtRest
  /\ WizardAtRest
  /\ WatchAtRest
  /\ LanguageAtRest
  /\ RatingAtRest

\* distances are asked for, nothing else is in use
DistanceStart ==
  /\ LoginAtRest
  /\ SearchAtRest
  /\ DistanceInit
  /\ ServiceAtRest
  /\ LocatingAtRest
  /\ WizardAtRest
  /\ WatchAtRest
  /\ LanguageAtRest
  /\ RatingAtRest

\* the payment and money-transfer services are called, nothing else is in use
ServiceStart ==
  /\ LoginAtRest
  /\ SearchAtRest
  /\ DistanceAtRest
  /\ ServiceInit
  /\ LocatingAtRest
  /\ WizardAtRest
  /\ WatchAtRest
  /\ LanguageAtRest
  /\ RatingAtRest

\* getCurrentLocation is called, nothing else is in use
LocatingStart ==
  /\ LoginAtRest
  /\ SearchAtRest
  /\ DistanceAtRest
  /\ ServiceAtRest
  /\ LocatingInit
  /\ WizardAtRest
  /\ WatchAtRest
  /\ LanguageAtRest
  /\ RatingAtRest

\* the money-transfer screen is mounted, nothing else is in use
WizardStart ==
  /\ LoginAtRest
  /\ SearchAtRest
  /\ DistanceAtRest
  /\ ServiceAtRest
  /\ LocatingAtRest
  /\ WizardInit
  /\ WatchAtRest
  /\ LanguageAtRest
  /\ RatingAtRest

\* watchLocation is about to be called, nothing else is in use
WatchStart ==
  /\ LoginAtRest
  /\ SearchAtRest
  /\ DistanceAtRest
  /\ ServiceAtRest
  /\ LocatingAtRest
  /\ WizardAtRest
  /\ WatchInit
  /\ LanguageAtRest
  /\ RatingAtRest

\* the app has started with its language preference, nothing else is in use
LanguageStart ==
  /\ LoginAtRest
  /\ SearchAtRest
  /\ DistanceAtRest
  /\ ServiceAtRest
  /\ LocatingAtRest
  /\ WizardAtRest
  /\ WatchAtRest
  /\ LanguageInit
  /\ RatingAtRest

\* the rating screen is mounted, nothing else is in use
RatingStart ==
  /\ LoginAtRest
  /\ SearchAtRest
  /\ DistanceAtRest
  /\ ServiceAtRest
  /\ LocatingAtRest
  /\ WizardAtRest
  /\ WatchAtRest
  /\ LanguageAtRest
  /\ RatingInit

\* the login handshake
SpecLogin == LoginStart /\ [][LoginNext]_vars

\* the login handshake when every browser session comes to an end
FairSpecLogin == SpecLogin /\ WF_vars(BrowserSettle /\ UNCHANGED outsideLogin)

\* the search screen, for every worker list
SpecSearch == SearchStart /\ [][SearchNext]_vars

\* calculateDistance and isWithinRadius, for every pair of coordinates
SpecDistance == DistanceStart /\ [][DistanceNext]_vars

\* the payment and money-transfer service calls, for every response
SpecService == ServiceStart /\ [][ServiceNext]_vars

\* getCurrentLocation, for every behaviour of the location SDK
SpecLocating == LocatingStart /\ [][LocatingNext]_vars

\* the money-transfer wizard alone
SpecWizard == WizardStart /\ [][WizardNext]_vars

\* one watchLocation call with its cleanup function
SpecWatch == WatchStart /\ [][WatchNext]_vars

\* the useLanguage hook of SettingsScreen
SpecLanguage == LanguageStart /\ [][LanguageNext]_vars

\* loadLanguagePreference and setLanguage
SpecI18n == LanguageStart /\ [][I18nNext]_vars

\* the rating screen alone
SpecRating == RatingStart /\ [][RatingNext]_vars

\* ------------------------------------------------------------------------
\* Properties of the OAuth redirect handshake
\* ------------------------------------------------------------------------
\* the latest attempt got a success result with a url
GotRedirect == result.type = "success" /\ Truthy(result.url)

\* the URL constructor was called and returned
ParserReturned == GotRedirect /\ parserInput # Null /\ URLParses(parserInput)

\* the URL constructor was called and threw
ParserThrew == GotRedirect /\ parserInput # Null /\ ~URLParses(parserInput)

\* the query of url has a pair name=value with a non-empty value
HasQueryParam(url, name) ==
  LET q == <<"&">> \o QueryOf(url)
  IN \E i \in 1..(Len(q) - 3) :
       q[i] = "&" /\ q[i + 1] = name /\ q[i + 2] = "=" /\ q[i + 3] # "&"

\* the inner catch ran
FellBack == errors # <<>> /\ errors[1] = "Failed to parse callback URL"

\* C1: a redirect URL that carries an error parameter never leads to a
\* navigation to /oauth/callback, whatever else it carries and whichever
\* extraction path handles it.
C1_ErrorParamNeverNavigates ==
  (GotRedirect /\ HasQueryParam(result.url, "error")) => navs = <<>>

\* C2: when the URL parses and carries no error parameter, a navigation is
\* issued exactly when code and state are both non-empty, its params are
\* exactly the parsed code and state, and it is the only navigation unless
\* router.push itself threw; with code or state missing or empty nothing is
\* forwarded.
C2_ParsedCodeStateForwarded ==
  (ParserReturned /\ SearchParamsGet(result.url, "error") = Null) =>
    LET code == SearchParamsGet(result.url, "code")
        state == SearchParamsGet(result.url, "state")
    IN IF Truthy(code) /\ Truthy(state)
       THEN /\ navs # <<>>
            /\ navs[1] = Push(code, state)
            /\ (Len(navs) = 1 \/ FellBack)
       ELSE navs = <<>> /\ errors = <<"Missing code or state in callback URL">>

C2_Witness ==
  /\ ParserReturned
  /\ result.url[1] = "https://"
  /\ navs = <<Push(<<"A", " ">>, <<"B">>)>>

\* redirect URLs of the form scheme://host/path?code=C&state=S
CodeParams == { p \in ParamPool : p[1] = "code" /\ Len(p) > 2 }
StateParams == { p \in ParamPool : p[1] = "state" /\ Len(p) > 2 }
CustomSchemes == {"exp://", "exps://", "myapp://"}

IsCodeStateUrl(url, schemes) ==
  \E s \in schemes, pc \in CodeParams, ps \in StateParams :
    url = <<s, "host", CallbackPath>> \o QueryTokens(<<pc, ps>>)

\* the pair such a URL carries: C is what stands between "code=" and "&",
\* S what follows "state="
ExpectedPush(url) ==
  LET amp == FirstIndex(url, {"&"})
  IN Push(FormDecode(SubSeq(url, 7, amp - 1)), FormDecode(SubSeq(url, amp + 3, Len(url))))

\* C3 as stated: every custom-scheme URL scheme://host/path?code=C&state=S,
\* the app-specific scheme included, is rewritten to http:// before it is
\* parsed, and {code: C, state: S} is extracted.
C3_Original ==
  (GotRedirect /\ IsCodeStateUrl(result.url, CustomSchemes)) =>
    /\ parserInput # Null
    /\ parserInput[1] = "http://"
    /\ navs # <<>>
    /\ navs[1] = ExpectedPush(result.url)

\* C3 as amended: an exp:// or exps:// URL is rewritten to http:// before
\* it is parsed, a URL of any other scheme (the app-specific one included)
\* is parsed as it is, and in both cases scheme://host/path?code=C&state=S
\* yields {code: C, state: S}.
C3_CustomSchemeExtracted ==
  (GotRedirect /\ IsCodeStateUrl(result.url, CustomSchemes)) =>
    /\ parserInput =
         IF result.url[1] \in {"exp://", "exps://"}
         THEN <<"http://">> \o Tail(result.url)
         ELSE result.url
    /\ navs # <<>>
    /\ navs[1] = ExpectedPush(result.url)

C3_Witness ==
  /\ GotRedirect
  /\ result.url = <<"exps://", "host", CallbackPath, "?", "code", "=", "A", "&", "state", "=", "B">>
  /\ parserInput[1] = "http://"
  /\ navs = <<Push(<<"A">>, <<"B">>)>>

\* C4 as stated: when the URL parser throws and both regexes match the raw
\* string, the URL-decoded values are forwarded; otherwise nothing is.
C4_Original ==
  ParserThrew =>
    IF RegexMatch(result.url, "code") # Null /\ RegexMatch(result.url, "state") # Null
    THEN Len(navs) = 1
    ELSE navs = <<>>

\* C4 as amended: when the URL parser throws, the text after the first
\* [?&]code= and [?&]state= up to the next & or the end of the string is
\* forwarded after decodeURIComponent, provided both are non-empty and both
\* decode; when either is missing, empty or not decodable nothing is
\* forwarded.
C4_FallbackForwardsDecoded ==
  ParserThrew =>
    LET codeMatch == RegexMatch(result.url, "code")
        stateMatch == RegexMatch(result.url, "state")
    IN IF /\ codeMatch # Null
          /\ stateMatch # Null
          /\ ~DecodeThrows(codeMatch)
          /\ ~DecodeThrows(stateMatch)
       THEN navs = <<Push(DecodeURIComponent(codeMatch), DecodeURIComponent(stateMatch))>>
       ELSE navs = <<>>

C4_Witness ==
  /\ ParserThrew
  /\ FellBack
  /\ navs = <<Push(<<"A", "+">>, <<"B", "#", "frag">>)>>

\* C5: a navigation happens only after a success result with a url; after
\* cancel or dismiss nothing is parsed, nothing is logged as an error and
\* nothing is navigated to.
C5_OnlySuccessNavigates ==
  /\ navs # <<>> => GotRedirect
  /\ parserInput # Null => GotRedirect
  /\ result.type \in {"cancel", "dismiss"} =>
       parserInput = Null /\ navs = <<>> /\ errors = <<>>

C5_Witness ==
  /\ result.type = "dismiss"
  /\ result.url = SampleUrl
  /\ pending = 0
  /\ navs = <<>>

\* C6: every login attempt comes to an end with the login control enabled
\* again, and no exception ever leaves handleLogin.
C6_LoginAlwaysReenabled ==
  /\ [](isLoggingIn => <>(~isLoggingIn /\ pending = 0))
  /\ [](~escaped)

C6_Witness ==
  /\ ~isLoggingIn
  /\ pending = 0
  /\ ParserThrew
  /\ errors = <<"Failed to parse callback URL", "Login error">>

\* C7: at most one handleLogin invocation is waiting in a browser session.
C7_SingleLoginInFlight == pending <= 1

C7_Witness == pending = 1 /\ isLoggingIn /\ LoginDisabled

\* C8: on web no browser session is opened, no redirect is parsed and no
\* navigation is made; a login that got its URL assigns it to the page
\* location and is over.
C8_WebOnlyRedirects ==
  platform = "web" =>
    /\ pending = 0
    /\ ~isLoggingIn
    /\ result = NoResult
    /\ parserInput = Null
    /\ navs = <<>>
    /\ locationHref \in {"app", "loginUrl"}
    /\ errors \in {<<>>, <<"Login error">>}

C8_Witness == platform = "web" /\ locationHref = "loginUrl" /\ errors = <<>>

\* ------------------------------------------------------------------------
\* Properties of the search filter
\* ------------------------------------------------------------------------
ByProfession(list) == FilterProfession(list, selectedProfession)
ByQuery(list) == FilterQuery(list, searchQuery)
ByRadius(list) == FilterDistance(list, userLocation, maxDistance)

\* C9: the three filters give the same list in whichever order they are
\* composed, and that list is the one the screen shows.
C9_FilterOrderIrrelevant ==
  /\ ByRadius(ByProfession(workers)) = ByProfession(ByRadius(workers))
  /\ ByRadius(ByQuery(workers)) = ByQuery(ByRadius(workers))
  /\ ByQuery(ByProfession(workers)) = ByProfession(ByQuery(workers))
  /\ \A order \in { <<1, 2, 3>>, <<1, 3, 2>>, <<2, 1, 3>>, <<2, 3, 1>>, <<3, 1, 2>>, <<3, 2, 1>> } :
       LET Step(k, list) ==
             CASE k = 1 -> ByProfession(list)
               [] k = 2 -> ByQuery(list)
               [] k = 3 -> ByRadius(list)
       IN Step(order[3], Step(order[2], Step(order[1], workers))) = filteredWorkers

C9_Witness ==
  /\ Truthy(selectedProfession)
  /\ userLocation # <<>>
  /\ Len(ByProfession(workers)) < Len(workers)
  /\ Len(ByRadius(workers)) < Len(workers)
  /\ Len(filteredWorkers) < Len(ByProfession(workers))
  /\ Len(filteredWorkers) < Len(ByRadius(workers))
  /\ filteredWorkers # <<>>

\* a worker passes the filters that are switched on
Shown(w) ==
  /\ Truthy(selectedProfession) => w.profession = selectedProfession
  /\ searchQuery # <<>> =>
       \/ Includes(w.name, searchQuery)
       \/ Includes(w.profession, searchQuery)
       \/ \E t \in 1..Len(w.tags) : Includes(w.tags[t], searchQuery)
  /\ userLocation # <<>> =>
       LessOrEqual(calculateDistance(userLocation[1], w.location), maxDistance * 10)

\* C10: filteredWorkers is the sublist of workers, in the original order,
\* of the workers that have the selected profession (when one is selected),
\* match the query in name, profession or a tag (when there is a query) and
\* are within maxDistance of the user location (when it is known).
C10_FilteredIsConjunction == filteredWorkers = SelectSeq(workers, Shown)

C10_Witness ==
  /\ Truthy(selectedProfession)
  /\ searchQuery # <<>>
  /\ userLocation # <<>>
  /\ Len(filteredWorkers) = 2
  /\ Len(workers) = 3
  /\ \E i \in 1..2 :
       calculateDistance(userLocation[1], filteredWorkers[i].location) = maxDistance * 10

\* C11: while no user location is available, and whatever maxDistance is,
\* the list shown is the list the profession and query filters leave: the
\* radius filter excludes nobody.
C11_NoOriginPassThrough ==
  userLocation = <<>> => filteredWorkers = ByQuery(ByProfession(workers))

\* the location load ended without a location, the radius was set to the
\* smallest one and every worker is still shown
C11_Witness ==
  /\ userLocation = <<>>
  /\ ~loading
  /\ maxDistance = 10
  /\ workers # <<>>
  /\ filteredWorkers = workers

\* ------------------------------------------------------------------------
\* Properties of calculateDistance and isWithinRadius
\* ------------------------------------------------------------------------
\* C12: isWithinRadius(point, center, radiusKm) is true exactly when
\* calculateDistance(point, center) <= radiusKm; a distance equal to the
\* radius counts as within.
C12_WithinIffDistanceAtMostRadius ==
  {"distance", "within"} \subseteq returned =>
    (within <=> LessOrEqual(distance, radiusKm * 10))

\* two distinct points exactly radiusKm apart were found within the radius
C12_Witness ==
  /\ {"distance", "within"} \subseteq returned
  /\ point # center
  /\ distance = radiusKm * 10
  /\ within

\* C13: calculateDistance(point, center) equals
\* calculateDistance(center, point).
C13_DistanceSymmetric ==
  {"distance", "reverse"} \subseteq returned => distance = reverse

\* C14: calculateDistance(p, p) is 0.0 for every coordinate p.
C14_DistanceToSelfIsZero ==
  ("distance" \in returned /\ point = center) => distance = 0

\* the distance of an off-grid point to itself was computed
C14_Witness ==
  /\ "distance" \in returned
  /\ point = RiyadhOff
  /\ center = RiyadhOff
  /\ distance = 0

\* pairs of points opposite each other on the globe
AntipodalPairs ==
  { <<Equator0, Antipode0>>, <<Antipode0, Equator0>>,
    <<North12, South12>>, <<South12, North12>> }

\* C15: calculateDistance is the rounded Haversine distance for a radius of
\* 6371 km: 111.2 km from (0, 0) to (0, 1), and about 20015 km (within one
\* kilometre) between antipodal points.
C15_HaversineValues ==
  "distance" \in returned =>
    /\ (point = Equator0 /\ center = Equator1) => distance = 1112
    /\ <<point, center>> \in AntipodalPairs => distance \in 200141..200161

\* ------------------------------------------------------------------------
\* Properties of the payment and money-transfer services
\* ------------------------------------------------------------------------
\* the latest call met a failure: fetch rejected, the response was not 2xx,
\* or reading the body threw
ServiceFailed ==
  \/ serviceResponse.fetch \in {"throws", "notok"}
  \/ serviceCall.reads # "ok" /\ serviceResponse.body = "throws"

\* C16: no payment or money-transfer call throws; on a non-2xx response or
\* a thrown network / JSON error an object-returning call returns null, a
\* list-returning call an empty list, a delete / cancel call false.
C16_ServiceCallsReturnSentinels ==
  serviceCall # NoCall =>
    /\ ~serviceThrew
    /\ ServiceFailed =>
         /\ serviceCall.returns = "object" => serviceResult = "null"
         /\ serviceCall.returns = "list" => serviceResult = "[]"
         /\ serviceCall.returns = "flag" => serviceResult = "false"

\* getTransferHistory got a 2xx response whose body is not JSON and
\* returned the empty list
C16_Witness ==
  /\ serviceCall.name = "getTransferHistory"
  /\ serviceResponse = [fetch |-> "ok", body |-> "throws"]
  /\ serviceResult = "[]"
  /\ ~serviceThrew

\* ------------------------------------------------------------------------
\* Properties of getCurrentLocation
\* ------------------------------------------------------------------------
\* the check or the request of the latest run said granted
PermissionHeld == Granted(checked) \/ Granted(requested)

\* C17: getCurrentLocation checks the permission first, requests it only
\* when the check did not say granted, reads the position only once the
\* permission is held, returns null without reading it when the request is
\* denied too, and returns null instead of throwing when an SDK call throws.
C17_PositionOnlyWithPermission ==
  /\ sdkCalls # <<>> => sdkCalls[1] = "getForegroundPermissionsAsync"
  /\ requested # "none" =>
       /\ ~Granted(checked)
       /\ Len(sdkCalls) >= 2
       /\ sdkCalls[2] = "requestForegroundPermissionsAsync"
  /\ Granted(checked) => requested = "none"
  /\ positioned.called => PermissionHeld
  /\ (requested # "none" /\ ~Granted(requested)) =>
       /\ locPc = "done"
       /\ located = <<>>
       /\ ~positioned.called
  /\ (locPc = "done" /\ positioned.throws) => located = <<>>
  /\ ~locThrew

\* the check and the request were both denied and the run returned null
\* after these two SDK calls
C17_Witness ==
  /\ locPc = "done"
  /\ checked = "denied"
  /\ requested = "denied"
  /\ sdkCalls = <<"getForegroundPermissionsAsync", "requestForegroundPermissionsAsync">>
  /\ located = <<>>

\* C19: when reverse geocoding throws or gives an empty list,
\* getCurrentLocation returns the latitude and longitude that were read,
\* with address undefined.
C19_AddressOptional ==
  (locPc = "done" /\ geocoded.called /\ (geocoded.throws \/ geocoded.places = <<>>)) =>
    located = << [latitude |-> positioned.coords.latitude,
                  longitude |-> positioned.coords.longitude,
                  address |-> Undefined] >>

\* reverse geocoding threw and the position read at Riyadh was returned
C19_Witness ==
  /\ locPc = "done"
  /\ geocoded.called
  /\ geocoded.throws
  /\ located # <<>>
  /\ located[1].latitude = Riyadh1.latitude
  /\ located[1].address = Undefined

\* C18: the wizard's step starts at method, and whenever it changes it moves
\* to the next step of method -> recipient -> amount -> confirm: never
\* backward, never past a step.
C18_StepsAdvanceOneAtATime ==
  /\ step = "method"
  /\ [][step' # step =>
          \E i \in 1..(Len(Steps) - 1) : step = Steps[i] /\ step' = Steps[i + 1]]_vars

\* the wizard has walked through all four steps
C18_Witness ==
  /\ step = "confirm"
  /\ selectedMethod # NoMethod
  /\ trim(recipientInfo) # <<>>
  /\ amount # <<>>

\* C20: one login attempt calls router.push for /oauth/callback at most
\* once: after the inner try has made its router.push call, the regex
\* fallback makes no second one, also when that first call threw.
C20_NavigatesAtMostOnce == Len(navs) <= 1

\* C21: once the cleanup function has been called, the SDK's watcher is not
\* active and onLocationChange is not called again, whenever the cleanup
\* call comes.
C21_CleanupStopsUpdates == cleanedUp => watcher # "active" /\ lateCalls = 0

\* C22: at most one initialize...Transfer request is in flight, and the
\* number of requests in flight grows only by a confirm tap made while
\* isLoading is false and nothing is in flight, by one request: a tap made
\* while isLoading issues nothing, and a request that settles, failed or
\* not, issues nothing.
C22_SingleTransferInFlight ==
  /\ [](Len(initRequests) <= 1)
  /\ [][Len(initRequests') > Len(initRequests) =>
          ~isLoading /\ isLoading' /\ initRequests = <<>> /\ Len(initRequests') = 1]_vars

\* a request is in flight and the confirm button is disabled
C22_Witness ==
  /\ Len(initRequests) = 1
  /\ isLoading
  /\ Rendered("confirm")

\* C23: every run of handleConfirmTransfer at the confirm step makes the
\* initialize...Transfer call of the selected method, for each of the four
\* methods of TRANSFER_METHODS; the success view is shown only for a
\* transfer of the selected method, and isLoading is false when no call is
\* awaited.
C23_ConfirmIssuesRequestForMethod ==
  /\ \A i \in DOMAIN confirmations :
       /\ confirmations[i].method \in TransferMethods
       /\ confirmations[i].call # "none"
  /\ transfer # <<>> => transfer[1].method = selectedMethod
  /\ initRequests = <<>> => ~isLoading

\* C24: at the confirm step a method is selected, the trimmed recipient is
\* not empty and the amount text parses to a number greater than 0.
C24_ConfirmStepHasValidInput ==
  step = "confirm" =>
    /\ selectedMethod # NoMethod
    /\ trim(recipientInfo) # <<>>
    /\ parseFloat(amount) # NaN
    /\ parseFloat(amount) > 0

\* C25: once every getTransferFees call has settled, the fee on display
\* (the fee is displayed while the amount text is not empty) was taken from
\* the response to the call for the selected method and the amount now in
\* the field, or is still the initial 0: no fee computed for another
\* amount is on display.
C25_FeeMatchesLatestAmount ==
  feeRequests = {} /\ amount # <<>> =>
    feeOf \in {NoFeeRequest, FeeRequest(selectedMethod, amount)}

Settled == tasks = <<>> /\ ~effectDue

\* C26: once changeLanguage(L) has run to its end and every load effect
\* has settled, the active language, currentLanguage and the stored
\* preference are L and isRTL is the one of L.
C26_ChangeLanguageWins ==
  lastChange.status = "done" /\ Settled =>
    /\ i18nLanguage = lastChange.language
    /\ currentLanguage = lastChange.language
    /\ isRTL = updateRTL(lastChange.language)
    /\ stored = lastChange.language

\* C27: loadLanguagePreference and setLanguage go on to
\* i18n.changeLanguage with a supported language only; whenever the active
\* language changes it becomes one of the five supported languages, and
\* whenever the stored preference changes it becomes the language of a
\* setLanguage call whose i18n.changeLanguage has resolved.
C27_OnlySupportedLanguages ==
  /\ [](\A i \in DOMAIN tasks :
          tasks[i].pc # "read" => tasks[i].language \in SupportedLanguages)
  /\ [][i18nLanguage' # i18nLanguage => i18nLanguage' \in SupportedLanguages]_vars
  /\ [][stored' # stored =>
          /\ stored' \in SupportedLanguages
          /\ \E i \in DOMAIN tasks : tasks[i] = Task("setLanguage", "persist", stored')]_vars

\* setLanguage('ar') has activated Arabic on a device that started in
\* another language and is about to store it
C27_Witness ==
  /\ \E i \in DOMAIN tasks : tasks[i] = Task("setLanguage", "persist", "ar")
  /\ i18nLanguage = "ar"
  /\ stored # "ar"

\* C28: every review of the list has a score in 1..5; a submission is
\* accepted only with a rating other than 0 and carries that rating; the
\* list changes only by one review being put in front of the reviews
\* there were, with the score of its submission, and the form is reset
\* with it (rating 0, empty comment).
C28_ReviewsKeepValidScores ==
  /\ [](\A i \in DOMAIN reviews : reviews[i].score \in 1..5)
  /\ [][timer' # timer /\ Len(timer') > Len(timer) =>
          rating # 0 /\ timer'[Len(timer')].rating = rating]_vars
  /\ [][reviews' # reviews =>
          /\ timer # <<>>
          /\ Tail(reviews') = reviews
          /\ Head(reviews').score = Head(timer).rating
          /\ rating' = 0
          /\ comment' = <<>>]_vars

\* a review with two stars and no comment has been submitted and put in
\* front of the three reviews the screen started with
C28_Witness ==
  /\ Len(reviews) = Len(MOCK_REVIEWS) + 1
  /\ reviews[1].score = 2
  /\ reviews[1].comment = Undefined
  /\ rating = 0
  /\ timer = <<>>

====
